---------------------------- MODULE Spec2Model ----------------------------
(***************************************************************************)
(* Model of the vocabulary trainer in src/script.js: the spaced-repetition *)
(* progress store (updateProgress, getVocabProgress, getWordsForReview),   *)
(* the word bank, the verb-form derivation (getVerbForms), the level of a  *)
(* word (determineLevel), and the vocabulary list with the handlers that   *)
(* add entries to it or improve them while they await the services.        *)
(*                                                                         *)
(* JavaScript numbers are IEEE-754 doubles.  The ease factor is changed by *)
(* + 0.1 and - 0.2, neither of which is exact in binary, so ease is kept   *)
(* here as the exact double the program holds: a fixed-point number with   *)
(* 56 fractional bits, split in two limbs of 28 bits (TLC integers are 32  *)
(* bits wide).  Every double in [2^-4, 8) is an integer in that unit, and  *)
(* FRound rounds a sum to the 53 significant bits of its binade, ties to   *)
(* even, as the hardware does.                                             *)
(*                                                                         *)
(* Date.now() is read anew at each place the code calls it; the clock may  *)
(* advance between two reads of one handler.                               *)
(***************************************************************************)
EXTENDS Integers, Sequences, FiniteSets, TLC

VARIABLES
    clock,          \* the value Date.now() returns, in ms
    wordBankStore,  \* localStorage['wordBank']: NoItem or a list of ids
    progressStore,  \* localStorage['vocabProgress']: NoItem or id -> record
    ret,            \* the last call: its arguments, clock reads and result
    verb,           \* the string handed to getVerbForms or determineLevel
    pending,        \* the words of the entries that have no level yet
    vocabularyData, \* the list of entries the page works on
    vocabStore,     \* localStorage['vocabularyData']: NoItem or a list
    searchTask,     \* the handler of searchApiBtn while it awaits
    bulkTask,       \* the handler of generateBulkBtn while it awaits
    categoryTask,   \* the handler of generateCategoryBtn while it awaits
    improveTask,    \* improveVocabWithAI while it awaits
    regenerateTask, \* regenerateAllWithAI while it awaits
    disabled,       \* the buttons that are disabled
    favoritesStore, \* localStorage['favorites']: NoItem or a list of ids
    tabs,           \* updateProgress in each window, between read and save
    currentQuiz,    \* the id of the entry whose quiz is open, or Null
    options,        \* the quiz options on the page: none, open, locked
    timers,         \* the quizzes whose delayed callback has yet to run
    currentPage,    \* the page of the list that is shown
    currentCategory, \* the category filter
    currentType,    \* the type filter
    currentLevel,   \* the level filter
    searchInput,    \* the text in the search box
    rendered,       \* the entries handed to the last renderVocabList
    outcomes        \* history: the answers recorded for each item

\* the variables of the trainer, ret apart, and those of the vocabulary list
trainerVars == <<clock, wordBankStore, progressStore, verb, pending>>

vocabVars == <<vocabularyData, vocabStore, searchTask, bulkTask, categoryTask,
               improveTask, regenerateTask, disabled>>

\* what else the page keeps
quizVars == <<currentQuiz, options, timers>>

listVars == <<currentPage, currentCategory, currentType, currentLevel,
              searchInput, rendered>>

pageVars == <<favoritesStore, tabs, listVars>>

vars == <<ret, outcomes, trainerVars, vocabVars, pageVars, quizVars>>

----------------------------------------------------------------------------
(* Bounds of the model.                                                    *)

MaxId      == 2     \* vocabulary ids 1..MaxId
MaxQuiz    == 1     \* the entries 1..MaxQuiz are taken as a quiz
MaxReviews == 3     \* answers recorded in one run of Spec
MaxTracked == 1     \* answers recorded in one run of SpecReview
MaxAnswers == 7     \* answers recorded in one run of SpecEase
MaxDays    == 3     \* whole days the clock may pass
MaxMs      == 1     \* milliseconds the clock may pass within a day
MaxLen     == 3     \* length of the short words handed to getVerbForms
MaxVocab   == 3     \* entries of vocabularyData, those being added included
vocabPerCategory == 2   \* entries wanted in a category (100 in the script)
MaxEnriched == 2    \* entries of vocabularyData in one run of SpecEnrich
MaxFramed  == 2     \* answers recorded in one run of SpecFrame
MaxShared  == 2     \* answers recorded in one run of SpecShared
MaxBanked  == 3     \* the entries 1..MaxBanked go in and out of the word bank
MaxPage    == 7     \* changePage is called with the pages -1..MaxPage
MaxOpened  == 2     \* the entries 1..MaxOpened are opened as a quiz
MaxPlayed  == 2     \* answers given in one run of SpecQuiz
MaxDue     == 3     \* answers recorded in one run of SpecDue

Ids == 1..MaxId

QuizIds == 1..MaxQuiz

----------------------------------------------------------------------------
(* IEEE-754 doubles as two-limb fixed point, unit 2^-56.                   *)

Limb == 268435456   \* 2^28

Dbl(h, l) == [hi |-> h, lo |-> l]

D0_1 == Dbl(26843545, 161061274)    \* 0.1 = 0x1.999999999999Ap-4
D0_2 == Dbl(53687091, 53687092)     \* 0.2 = 0x1.999999999999Ap-3
D1_3 == Dbl(348966092, 214748368)   \* 1.3 = 0x1.4CCCCCCCCCCCDp+0
D2_5 == Dbl(671088640, 0)           \* 2.5
D2_3 == Dbl(617401548, 214748352)   \* 2.3 = 0x1.2666666666666p+1
D2_4 == Dbl(644245094, 107374176)   \* 2.4 = 0x1.3333333333333p+1
D1_0 == Dbl(268435456, 0)           \* 1.0
D2_0 == Dbl(536870912, 0)           \* 2.0
D3_0 == Dbl(805306368, 0)           \* 3.0

FLe(x, y) == x.hi < y.hi \/ (x.hi = y.hi /\ x.lo <= y.lo)
FLt(x, y) == x.hi < y.hi \/ (x.hi = y.hi /\ x.lo < y.lo)

\* Math.min / Math.max on two doubles
FMin(x, y) == IF FLe(x, y) THEN x ELSE y
FMax(x, y) == IF FLe(x, y) THEN y ELSE x

\* spacing of the doubles in the binade of x, in units of 2^-56
Quantum(x) ==
    IF x.hi >= 4 * Limb THEN 64
    ELSE IF x.hi >= 2 * Limb THEN 32
    ELSE IF x.hi >= Limb THEN 16
    ELSE IF x.hi >= Limb \div 2 THEN 8
    ELSE IF x.hi >= Limb \div 4 THEN 4
    ELSE IF x.hi >= Limb \div 8 THEN 2
    ELSE 1

Carry(h, l) == IF l >= Limb THEN Dbl(h + 1, l - Limb) ELSE Dbl(h, l)

\* round an exact value to the nearest double, ties to even
FRound(x) ==
    LET q    == Quantum(x)
        r    == x.lo % q
        down == x.lo - r
        up   == IF 2 * r > q THEN TRUE
                ELSE IF 2 * r < q THEN FALSE
                ELSE (down \div q) % 2 = 1
    IN  IF up THEN Carry(x.hi, down + q) ELSE Dbl(x.hi, down)

\* x + y and x - y (x >= y) in double arithmetic
FAdd(x, y) == FRound(Carry(x.hi + y.hi, x.lo + y.lo))
FSub(x, y) ==
    FRound(IF x.lo >= y.lo THEN Dbl(x.hi - y.hi, x.lo - y.lo)
           ELSE Dbl(x.hi - y.hi - 1, x.lo + Limb - y.lo))

\* Math.ceil
Ceil(x) == (x.hi \div Limb) + (IF x.hi % Limb = 0 /\ x.lo = 0 THEN 0 ELSE 1)

----------------------------------------------------------------------------
(* localStorage and the clock.                                             *)

DayMs == 86400000   \* 24 * 60 * 60 * 1000
Epoch == 1000       \* Date.now() when the page is opened
Null  == -1         \* lastReview: null (timestamps are positive)

\* a localStorage key: absent (getItem returns null) or holding a value
NoItem(empty) == [present |-> FALSE, value |-> empty]
Item(v)       == [present |-> TRUE, value |-> v]

NoProgress == [i \in {} |-> 0]   \* {}

\* the clock stays within MaxDays days and MaxMs ms of the Epoch
InRange(t) ==
    /\ t - Epoch <= MaxDays * DayMs + MaxMs
    /\ (t - Epoch) % DayMs <= MaxMs

\* the clock can pass by a within a handler, between two calls of Date.now()
Lapse(t) == {a \in 0..1 : InRange(t + a)}

getWordBank == IF wordBankStore.present THEN wordBankStore.value ELSE <<>>

getProgress == IF progressStore.present THEN progressStore.value ELSE NoProgress

RECURSIVE SumOver(_, _)
SumOver(S, p) ==
    IF S = {} THEN 0
    ELSE LET i == CHOOSE j \in S : TRUE
         IN  p[i].correct + p[i].incorrect + SumOver(S \ {i}, p)

\* answers recorded so far, over all items
Recorded == SumOver(DOMAIN getProgress, getProgress)

includes(list, x) == \E i \in 1..Len(list) : list[i] = x

\* Array.prototype.indexOf, 1-based; 0 when absent
indexOf(list, x) ==
    IF includes(list, x)
    THEN CHOOSE i \in 1..Len(list) :
            list[i] = x /\ \A j \in 1..(i - 1) : list[j] # x
    ELSE 0

\* list.splice(i, 1)
splice(list, i) == SubSeq(list, 1, i - 1) \o SubSeq(list, i + 1, Len(list))

----------------------------------------------------------------------------
(* Progress tracking.                                                      *)

NewProgress(now) ==
    [correct |-> 0, incorrect |-> 0, lastReview |-> Null,
     nextReview |-> now, ease |-> D2_5]

\* Adjust without the upper clamp
Adjust_NoMin(p, isCorrect) ==
    IF isCorrect
    THEN [p EXCEPT !.correct = @ + 1, !.ease = FAdd(@, D0_1)]
    ELSE [p EXCEPT !.incorrect = @ + 1, !.ease = FMax(D1_3, FSub(@, D0_2))]

\* Adjust with the step of a wrong answer applied to a right one
Adjust_Step(p, isCorrect) ==
    IF isCorrect
    THEN [p EXCEPT !.correct = @ + 1, !.ease = FMin(D2_5, FAdd(@, D0_2))]
    ELSE [p EXCEPT !.incorrect = @ + 1, !.ease = FMax(D1_3, FSub(@, D0_2))]

\* Adjust counting a wrong answer on both counters
Adjust_Both(p, isCorrect) ==
    IF isCorrect
    THEN [p EXCEPT !.correct = @ + 1, !.ease = FMin(D2_5, FAdd(@, D0_1))]
    ELSE [p EXCEPT !.incorrect = @ + 1, !.correct = @ + 1,
                   !.ease = FMax(D1_3, FSub(@, D0_2))]

\* Adjust keeping correct as a streak that a wrong answer ends
Adjust_Streak(p, isCorrect) ==
    IF isCorrect
    THEN [p EXCEPT !.correct = @ + 1, !.ease = FMin(D2_5, FAdd(@, D0_1))]
    ELSE [p EXCEPT !.incorrect = @ + 1, !.correct = 0,
                   !.ease = FMax(D1_3, FSub(@, D0_2))]

\* Adjust taking 0.1 off the ease for a wrong answer
Adjust_Tenth(p, isCorrect) ==
    IF isCorrect
    THEN [p EXCEPT !.correct = @ + 1, !.ease = FMin(D2_5, FAdd(@, D0_1))]
    ELSE [p EXCEPT !.incorrect = @ + 1, !.ease = FMax(D1_3, FSub(@, D0_1))]

\* the ease adjustment of updateProgress
Adjust(p, isCorrect) ==
    IF isCorrect
    THEN [p EXCEPT !.correct = @ + 1, !.ease = FMin(D2_5, FAdd(@, D0_1))]
    ELSE [p EXCEPT !.incorrect = @ + 1, !.ease = FMax(D1_3, FSub(@, D0_2))]

\* Schedule rounding the ease down
Schedule_Floor(p, t1, t2) ==
    LET daysUntilNext == p.ease.hi \div Limb
    IN  [p EXCEPT !.lastReview = t1, !.nextReview = t2 + daysUntilNext * DayMs]

\* Schedule leaving nextReview as it was
Schedule_Stale(p, t1, t2) == [p EXCEPT !.lastReview = t1]

\* the scheduling of updateProgress: t1, t2 are its two reads of the clock
Schedule(p, t1, t2) ==
    LET daysUntilNext == Ceil(p.ease)
    IN  [p EXCEPT !.lastReview = t1, !.nextReview = t2 + daysUntilNext * DayMs]

\* updateProgress saving the record of the answered item alone
updateProgress_Alone(vocabId, isCorrect, a1, a2) ==
    LET progress == getProgress
        t0       == clock
        before   == IF vocabId \in DOMAIN progress
                    THEN progress[vocabId] ELSE NewProgress(t0)
        t1       == t0 + a1
        t2       == t1 + a2
        after    == Schedule(Adjust(before, isCorrect), t1, t2)
    IN  /\ a1 \in Lapse(t0)
        /\ a2 \in Lapse(t1)
        /\ clock' = t2
        /\ progressStore' = Item([i \in {vocabId} |-> after])
        /\ ret' = [op |-> "updateProgress", id |-> vocabId,
                   isCorrect |-> isCorrect,
                   created |-> vocabId \notin DOMAIN progress,
                   before |-> before, t1 |-> t1, t2 |-> t2, result |-> after,
                   stored |-> progressStore]
        /\ outcomes' = [outcomes EXCEPT ![vocabId] = @ + 1]
        /\ UNCHANGED <<wordBankStore, verb, pending, vocabVars, pageVars>>

updateProgress(vocabId, isCorrect, a1, a2) ==
    LET progress == getProgress
        t0       == clock
        before   == IF vocabId \in DOMAIN progress
                    THEN progress[vocabId] ELSE NewProgress(t0)
        t1       == t0 + a1
        t2       == t1 + a2
        after    == Schedule(Adjust(before, isCorrect), t1, t2)
    IN  /\ a1 \in Lapse(t0)
        /\ a2 \in Lapse(t1)
        /\ clock' = t2
        /\ progressStore' =
              Item([i \in DOMAIN progress \cup {vocabId} |->
                       IF i = vocabId THEN after ELSE progress[i]])
        /\ ret' = [op |-> "updateProgress", id |-> vocabId,
                   isCorrect |-> isCorrect,
                   created |-> vocabId \notin DOMAIN progress,
                   before |-> before, t1 |-> t1, t2 |-> t2, result |-> after,
                   stored |-> progressStore]
        /\ outcomes' = [outcomes EXCEPT ![vocabId] = @ + 1]
        /\ UNCHANGED <<wordBankStore, verb, pending, vocabVars, pageVars>>

\* the windows that show the page and share localStorage
Tabs == {"first", "second"}

IdleTab == [pc |-> "idle", id |-> 0, isCorrect |-> FALSE,
            progress |-> NoProgress]

\* updateProgress in one window up to its call of getProgress
ReadProgress(tab, vocabId, isCorrect) ==
    /\ tabs[tab].pc = "idle"
    /\ tabs' = [tabs EXCEPT ![tab] = [pc |-> "read", id |-> vocabId,
                                      isCorrect |-> isCorrect,
                                      progress |-> getProgress]]
    /\ UNCHANGED <<ret, outcomes, trainerVars, vocabVars, favoritesStore,
                   listVars, quizVars>>

\* the rest of updateProgress in that window: the record is changed in the
\* map that was read and the map is saved
SaveProgress(tab, a1, a2) ==
    LET progress == tabs[tab].progress
        vocabId  == tabs[tab].id
        t0       == clock
        before   == IF vocabId \in DOMAIN progress
                    THEN progress[vocabId] ELSE NewProgress(t0)
        t1       == t0 + a1
        t2       == t1 + a2
        after    == Schedule(Adjust(before, tabs[tab].isCorrect), t1, t2)
    IN  /\ tabs[tab].pc = "read"
        /\ a1 \in Lapse(t0)
        /\ a2 \in Lapse(t1)
        /\ clock' = t2
        /\ progressStore' =
              Item([i \in DOMAIN progress \cup {vocabId} |->
                       IF i = vocabId THEN after ELSE progress[i]])
        /\ ret' = [op |-> "updateProgress", id |-> vocabId,
                   isCorrect |-> tabs[tab].isCorrect,
                   created |-> vocabId \notin DOMAIN progress,
                   before |-> before, t1 |-> t1, t2 |-> t2, result |-> after,
                   stored |-> progressStore]
        /\ outcomes' = [outcomes EXCEPT ![vocabId] = @ + 1]
        /\ tabs' = [tabs EXCEPT ![tab] = IdleTab]
        /\ UNCHANGED <<wordBankStore, verb, pending, vocabVars, favoritesStore,
                       listVars, quizVars>>

getVocabProgress(vocabId) ==
    LET progress == getProgress
    IN  /\ ret' = [op |-> "getVocabProgress", id |-> vocabId,
                   result |-> IF vocabId \in DOMAIN progress
                              THEN progress[vocabId] ELSE NewProgress(clock)]
        /\ UNCHANGED <<clock, wordBankStore, progressStore, verb, pending, vocabVars, pageVars, quizVars, outcomes>>

\* ReviewAt with the default of getVocabProgress, pushed a day ahead
ReviewAt_Later(progress, id) ==
    IF id \in DOMAIN progress THEN progress[id].nextReview ELSE clock + DayMs

\* nextReview as getWordsForReview sees it: 0 for an id without progress
ReviewAt(progress, id) ==
    IF id \in DOMAIN progress THEN progress[id].nextReview ELSE 0

\* IsDue with a strict comparison
IsDue_Strict(progress, id, now) == ReviewAt(progress, id) < now

IsDue(progress, id, now) == ReviewAt(progress, id) <= now

getWordsForReview ==
    LET wordBank == getWordBank
        progress == getProgress
        now      == clock
    IN  /\ ret' = [op |-> "getWordsForReview", now |-> now,
                   result |-> SelectSeq(wordBank,
                                 LAMBDA id : IsDue(progress, id, now))]
        /\ UNCHANGED <<clock, wordBankStore, progressStore, verb, pending, vocabVars, pageVars, quizVars, outcomes>>

----------------------------------------------------------------------------
(* Word bank.                                                              *)

\* addToWordBank without its test of includes
addToWordBank_Push(vocabId) ==
    LET wordBank == getWordBank
    IN  /\ wordBankStore' = Item(Append(wordBank, vocabId))
        /\ ret' = [op |-> "addToWordBank", id |-> vocabId, result |-> TRUE]
        /\ UNCHANGED <<clock, progressStore, verb, pending, vocabVars, pageVars, quizVars, outcomes>>

addToWordBank(vocabId) ==
    LET wordBank == getWordBank
    IN  /\ IF ~includes(wordBank, vocabId)
           THEN /\ wordBankStore' = Item(Append(wordBank, vocabId))
                /\ ret' = [op |-> "addToWordBank", id |-> vocabId,
                           result |-> TRUE]
           ELSE /\ UNCHANGED wordBankStore
                /\ ret' = [op |-> "addToWordBank", id |-> vocabId,
                           result |-> FALSE]
        /\ UNCHANGED <<clock, progressStore, verb, pending, vocabVars, pageVars, quizVars, outcomes>>

\* removeFromWordBank deleting the progress of the item as well
removeFromWordBank_Forget(vocabId) ==
    LET wordBank == getWordBank
        index    == indexOf(wordBank, vocabId)
        progress == getProgress
    IN  /\ IF index > 0
           THEN /\ wordBankStore' = Item(splice(wordBank, index))
                /\ progressStore' =
                      Item([i \in DOMAIN progress \ {vocabId} |-> progress[i]])
                /\ ret' = [op |-> "removeFromWordBank", id |-> vocabId,
                           result |-> TRUE]
           ELSE /\ UNCHANGED <<wordBankStore, progressStore>>
                /\ ret' = [op |-> "removeFromWordBank", id |-> vocabId,
                           result |-> FALSE]
        /\ UNCHANGED <<clock, verb, pending, vocabVars, pageVars, quizVars, outcomes>>

removeFromWordBank(vocabId) ==
    LET wordBank == getWordBank
        index    == indexOf(wordBank, vocabId)
    IN  /\ IF index > 0
           THEN /\ wordBankStore' = Item(splice(wordBank, index))
                /\ ret' = [op |-> "removeFromWordBank", id |-> vocabId,
                           result |-> TRUE]
           ELSE /\ UNCHANGED wordBankStore
                /\ ret' = [op |-> "removeFromWordBank", id |-> vocabId,
                           result |-> FALSE]
        /\ UNCHANGED <<clock, progressStore, verb, pending, vocabVars, pageVars, quizVars, outcomes>>

isInWordBank(vocabId) ==
    /\ ret' = [op |-> "isInWordBank", id |-> vocabId,
               result |-> includes(getWordBank, vocabId)]
    /\ UNCHANGED <<trainerVars, vocabVars, pageVars, quizVars, outcomes>>

----------------------------------------------------------------------------
(* Verb forms.  A string is the sequence of its characters.                *)

UpperCase ==
    <<"A", "B", "C", "D", "E", "F", "G", "H", "I", "J", "K", "L",
      "M", "N", "O", "P", "Q", "R", "S", "T", "U", "V", "W", "X",
      "Y", "Z">>
LowerCase ==
    <<"a", "b", "c", "d", "e", "f", "g", "h", "i", "j", "k", "l",
      "m", "n", "o", "p", "q", "r", "s", "t", "u", "v", "w", "x",
      "y", "z">>

\* String.prototype.toLowerCase, character by character
ToLowerChar(c) ==
    IF \E i \in 1..26 : UpperCase[i] = c
    THEN LowerCase[CHOOSE i \in 1..26 : UpperCase[i] = c]
    ELSE c

toLowerCase(str) == [i \in 1..Len(str) |-> ToLowerChar(str[i])]

ToUpperChar(c) ==
    IF \E i \in 1..26 : LowerCase[i] = c
    THEN UpperCase[CHOOSE i \in 1..26 : LowerCase[i] = c]
    ELSE c

Undefined == <<"#undefined">>   \* the value of a property that is not there

irregularVerbs == <<
    [key |-> <<"g", "o">>,
     v2 |-> <<"w", "e", "n", "t">>, v3 |-> <<"g", "o", "n", "e">>],
    [key |-> <<"e", "a", "t">>,
     v2 |-> <<"a", "t", "e">>, v3 |-> <<"e", "a", "t", "e", "n">>],
    [key |-> <<"s", "e", "e">>,
     v2 |-> <<"s", "a", "w">>, v3 |-> <<"s", "e", "e", "n">>],
    [key |-> <<"t", "a", "k", "e">>,
     v2 |-> <<"t", "o", "o", "k">>, v3 |-> <<"t", "a", "k", "e", "n">>],
    [key |-> <<"c", "o", "m", "e">>,
     v2 |-> <<"c", "a", "m", "e">>, v3 |-> <<"c", "o", "m", "e">>],
    [key |-> <<"g", "e", "t">>,
     v2 |-> <<"g", "o", "t">>, v3 |-> <<"g", "o", "t", "t", "e", "n">>],
    [key |-> <<"m", "a", "k", "e">>,
     v2 |-> <<"m", "a", "d", "e">>, v3 |-> <<"m", "a", "d", "e">>],
    [key |-> <<"k", "n", "o", "w">>,
     v2 |-> <<"k", "n", "e", "w">>, v3 |-> <<"k", "n", "o", "w", "n">>],
    [key |-> <<"t", "h", "i", "n", "k">>,
     v2 |-> <<"t", "h", "o", "u", "g", "h", "t">>, v3 |-> <<"t", "h", "o", "u", "g", "h", "t">>],
    [key |-> <<"g", "i", "v", "e">>,
     v2 |-> <<"g", "a", "v", "e">>, v3 |-> <<"g", "i", "v", "e", "n">>],
    [key |-> <<"f", "i", "n", "d">>,
     v2 |-> <<"f", "o", "u", "n", "d">>, v3 |-> <<"f", "o", "u", "n", "d">>],
    [key |-> <<"t", "e", "l", "l">>,
     v2 |-> <<"t", "o", "l", "d">>, v3 |-> <<"t", "o", "l", "d">>],
    [key |-> <<"b", "u", "y">>,
     v2 |-> <<"b", "o", "u", "g", "h", "t">>, v3 |-> <<"b", "o", "u", "g", "h", "t">>],
    [key |-> <<"s", "e", "l", "l">>,
     v2 |-> <<"s", "o", "l", "d">>, v3 |-> <<"s", "o", "l", "d">>],
    [key |-> <<"m", "e", "e", "t">>,
     v2 |-> <<"m", "e", "t">>, v3 |-> <<"m", "e", "t">>],
    [key |-> <<"w", "r", "i", "t", "e">>,
     v2 |-> <<"w", "r", "o", "t", "e">>, v3 |-> <<"w", "r", "i", "t", "t", "e", "n">>],
    [key |-> <<"r", "e", "a", "d">>,
     v2 |-> <<"r", "e", "a", "d">>, v3 |-> <<"r", "e", "a", "d">>],
    [key |-> <<"s", "p", "e", "a", "k">>,
     v2 |-> <<"s", "p", "o", "k", "e">>, v3 |-> <<"s", "p", "o", "k", "e", "n">>],
    [key |-> <<"f", "e", "e", "l">>,
     v2 |-> <<"f", "e", "l", "t">>, v3 |-> <<"f", "e", "l", "t">>],
    [key |-> <<"r", "u", "n">>,
     v2 |-> <<"r", "a", "n">>, v3 |-> <<"r", "u", "n">>],
    [key |-> <<"s", "w", "i", "m">>,
     v2 |-> <<"s", "w", "a", "m">>, v3 |-> <<"s", "w", "u", "m">>],
    [key |-> <<"w", "i", "n">>,
     v2 |-> <<"w", "o", "n">>, v3 |-> <<"w", "o", "n">>],
    [key |-> <<"s", "l", "e", "e", "p">>,
     v2 |-> <<"s", "l", "e", "p", "t">>, v3 |-> <<"s", "l", "e", "p", "t">>],
    [key |-> <<"d", "r", "i", "n", "k">>,
     v2 |-> <<"d", "r", "a", "n", "k">>, v3 |-> <<"d", "r", "u", "n", "k">>],
    [key |-> <<"h", "a", "n", "g">>,
     v2 |-> <<"h", "u", "n", "g">>, v3 |-> <<"h", "u", "n", "g">>] >>

\* the names every object inherits from Object.prototype that are written in
\* lower case: irregularVerbs[name] is an object or a function, without v2, v3
Inherited == {<<"c", "o", "n", "s", "t", "r", "u", "c", "t", "o", "r">>,
              <<"_", "_", "p", "r", "o", "t", "o", "_", "_">>}

IsKey(str) == \E i \in 1..Len(irregularVerbs) : irregularVerbs[i].key = str

Entry(str) == irregularVerbs[CHOOSE i \in 1..Len(irregularVerbs) :
                                irregularVerbs[i].key = str]

Vowels == {"a", "e", "i", "o", "u"}

endsWith(str, c) == Len(str) >= 1 /\ str[Len(str)] = c

\* /[^aeiou]y$/
EndsConsonantY(str) ==
    /\ Len(str) >= 2
    /\ str[Len(str) - 1] \notin Vowels
    /\ str[Len(str)] = "y"

\* /[aeiou][^aeiou]$/
EndsVowelConsonant(str) ==
    /\ Len(str) >= 2
    /\ str[Len(str) - 1] \in Vowels
    /\ str[Len(str)] \notin Vowels

\* getVerbForms looking the verb up as it was typed
getVerbForms_AsTyped(str) ==
    LET lowerVerb == toLowerCase(str)
    IN  IF IsKey(str)
        THEN [v1 |-> lowerVerb, v2 |-> Entry(str).v2,
              v3 |-> Entry(str).v3, type |-> "irregular"]
        ELSE [v1 |-> lowerVerb, v2 |-> lowerVerb \o <<"e", "d">>,
              v3 |-> lowerVerb \o <<"e", "d">>, type |-> "common"]

getVerbForms(str) ==
    LET lowerVerb == toLowerCase(str)
    IN  IF IsKey(lowerVerb)
        THEN [v1 |-> lowerVerb, v2 |-> Entry(lowerVerb).v2,
              v3 |-> Entry(lowerVerb).v3, type |-> "irregular"]
        ELSE IF lowerVerb \in Inherited
        THEN [v1 |-> lowerVerb, v2 |-> Undefined, v3 |-> Undefined,
              type |-> "irregular"]
        ELSE LET v2 ==
                   IF endsWith(lowerVerb, "e")
                   THEN lowerVerb \o <<"d">>
                   ELSE IF EndsConsonantY(lowerVerb)
                   THEN SubSeq(lowerVerb, 1, Len(lowerVerb) - 1)
                           \o <<"i", "e", "d">>
                   ELSE IF EndsVowelConsonant(lowerVerb)
                   THEN lowerVerb \o <<lowerVerb[Len(lowerVerb)]>>
                           \o <<"e", "d">>
                   ELSE lowerVerb \o <<"e", "d">>
             IN  [v1 |-> lowerVerb, v2 |-> v2, v3 |-> v2, type |-> "common"]

\* the caller hands the typed string to getVerbForms
GetVerbForms ==
    /\ ret.op = "load"
    /\ ret' = [op |-> "getVerbForms", verb |-> verb,
               result |-> getVerbForms(verb)]
    /\ UNCHANGED <<clock, wordBankStore, progressStore, verb, pending, vocabVars, pageVars, quizVars, outcomes>>

\* every spelling of a word in upper and lower case
Spellings(word) ==
    {[i \in 1..Len(word) |-> IF b[i] THEN ToUpperChar(word[i]) ELSE word[i]] :
        b \in [1..Len(word) -> BOOLEAN]}

\* verbs that are not in the table, and a name from Object.prototype
OtherVerbs == {<<"b", "a", "k", "e">>, <<"t", "r", "y">>,
               <<"c", "h", "a", "t">>, <<"w", "a", "l", "k">>,
               <<"p", "l", "a", "y">>, <<"c", "l", "e", "a", "n">>,
               <<"w", "a", "i", "t">>,
               <<"c", "o", "n", "s", "t", "r", "u", "c", "t", "o", "r">>}

\* the characters of the short words: vowels, y, a consonant in both cases
Letters == {"a", "e", "y", "t", "T"}

\* every word of up to MaxLen of these characters, the empty one included
ShortWords == UNION {[1..n -> Letters] : n \in 0..MaxLen}

TypedVerbs ==
    UNION {Spellings(irregularVerbs[i].key) : i \in 1..Len(irregularVerbs)}
        \cup UNION {Spellings(o) : o \in OtherVerbs}
        \cup ShortWords

----------------------------------------------------------------------------
(* The level of a verb: wordFrequency, levelMapping, determineLevel.       *)

\* the properties of the object literal in the order they are written; three
\* keys are written twice (manage, synthesize, conceptualize)
wordFrequency == <<
    [key |-> <<"g", "o">>, freq |-> 100],
    [key |-> <<"g", "e", "t">>, freq |-> 99],
    [key |-> <<"m", "a", "k", "e">>, freq |-> 98],
    [key |-> <<"k", "n", "o", "w">>, freq |-> 97],
    [key |-> <<"t", "h", "i", "n", "k">>, freq |-> 96],
    [key |-> <<"t", "a", "k", "e">>, freq |-> 95],
    [key |-> <<"s", "e", "e">>, freq |-> 94],
    [key |-> <<"c", "o", "m", "e">>, freq |-> 93],
    [key |-> <<"w", "a", "n", "t">>, freq |-> 92],
    [key |-> <<"u", "s", "e">>, freq |-> 91],
    [key |-> <<"f", "i", "n", "d">>, freq |-> 90],
    [key |-> <<"g", "i", "v", "e">>, freq |-> 89],
    [key |-> <<"t", "e", "l", "l">>, freq |-> 88],
    [key |-> <<"w", "o", "r", "k">>, freq |-> 87],
    [key |-> <<"c", "a", "l", "l">>, freq |-> 86],
    [key |-> <<"t", "r", "y">>, freq |-> 85],
    [key |-> <<"a", "s", "k">>, freq |-> 84],
    [key |-> <<"n", "e", "e", "d">>, freq |-> 83],
    [key |-> <<"f", "e", "e", "l">>, freq |-> 82],
    [key |-> <<"b", "e", "c", "o", "m", "e">>, freq |-> 81],
    [key |-> <<"l", "e", "a", "v", "e">>, freq |-> 80],
    [key |-> <<"p", "u", "t">>, freq |-> 79],
    [key |-> <<"m", "e", "a", "n">>, freq |-> 78],
    [key |-> <<"k", "e", "e", "p">>, freq |-> 77],
    [key |-> <<"l", "e", "t">>, freq |-> 76],
    [key |-> <<"b", "e", "g", "i", "n">>, freq |-> 75],
    [key |-> <<"s", "e", "e", "m">>, freq |-> 74],
    [key |-> <<"h", "e", "l", "p">>, freq |-> 73],
    [key |-> <<"s", "h", "o", "w">>, freq |-> 72],
    [key |-> <<"h", "e", "a", "r">>, freq |-> 71],
    [key |-> <<"p", "l", "a", "y">>, freq |-> 70],
    [key |-> <<"r", "u", "n">>, freq |-> 69],
    [key |-> <<"m", "o", "v", "e">>, freq |-> 68],
    [key |-> <<"l", "i", "k", "e">>, freq |-> 67],
    [key |-> <<"l", "i", "v", "e">>, freq |-> 66],
    [key |-> <<"b", "e", "l", "i", "e", "v", "e">>, freq |-> 65],
    [key |-> <<"b", "r", "i", "n", "g">>, freq |-> 64],
    [key |-> <<"h", "a", "p", "p", "e", "n">>, freq |-> 63],
    [key |-> <<"w", "r", "i", "t", "e">>, freq |-> 62],
    [key |-> <<"s", "i", "t">>, freq |-> 61],
    [key |-> <<"s", "t", "a", "n", "d">>, freq |-> 60],
    [key |-> <<"l", "o", "s", "e">>, freq |-> 59],
    [key |-> <<"p", "a", "y">>, freq |-> 58],
    [key |-> <<"m", "e", "e", "t">>, freq |-> 57],
    [key |-> <<"i", "n", "c", "l", "u", "d", "e">>, freq |-> 56],
    [key |-> <<"c", "o", "n", "t", "i", "n", "u", "e">>, freq |-> 55],
    [key |-> <<"s", "e", "t">>, freq |-> 54],
    [key |-> <<"l", "e", "a", "r", "n">>, freq |-> 53],
    [key |-> <<"c", "h", "a", "n", "g", "e">>, freq |-> 52],
    [key |-> <<"l", "e", "a", "d">>, freq |-> 51],
    [key |-> <<"u", "n", "d", "e", "r", "s", "t", "a", "n", "d">>, freq |-> 50],
    [key |-> <<"w", "a", "t", "c", "h">>, freq |-> 49],
    [key |-> <<"f", "o", "l", "l", "o", "w">>, freq |-> 48],
    [key |-> <<"s", "t", "o", "p">>, freq |-> 47],
    [key |-> <<"c", "r", "e", "a", "t", "e">>, freq |-> 46],
    [key |-> <<"s", "p", "e", "a", "k">>, freq |-> 45],
    [key |-> <<"r", "e", "a", "d">>, freq |-> 44],
    [key |-> <<"s", "p", "e", "n", "d">>, freq |-> 43],
    [key |-> <<"g", "r", "o", "w">>, freq |-> 42],
    [key |-> <<"o", "p", "e", "n">>, freq |-> 41],
    [key |-> <<"w", "a", "l", "k">>, freq |-> 40],
    [key |-> <<"w", "i", "n">>, freq |-> 39],
    [key |-> <<"o", "f", "f", "e", "r">>, freq |-> 38],
    [key |-> <<"r", "e", "m", "e", "m", "b", "e", "r">>, freq |-> 37],
    [key |-> <<"l", "o", "v", "e">>, freq |-> 36],
    [key |-> <<"c", "o", "n", "s", "i", "d", "e", "r">>, freq |-> 35],
    [key |-> <<"a", "p", "p", "e", "a", "r">>, freq |-> 34],
    [key |-> <<"b", "u", "y">>, freq |-> 33],
    [key |-> <<"w", "a", "i", "t">>, freq |-> 32],
    [key |-> <<"s", "e", "r", "v", "e">>, freq |-> 31],
    [key |-> <<"d", "i", "e">>, freq |-> 30],
    [key |-> <<"s", "e", "n", "d">>, freq |-> 29],
    [key |-> <<"b", "u", "i", "l", "d">>, freq |-> 28],
    [key |-> <<"s", "t", "a", "y">>, freq |-> 27],
    [key |-> <<"f", "a", "l", "l">>, freq |-> 26],
    [key |-> <<"c", "u", "t">>, freq |-> 25],
    [key |-> <<"r", "e", "a", "c", "h">>, freq |-> 24],
    [key |-> <<"k", "i", "l", "l">>, freq |-> 23],
    [key |-> <<"r", "a", "i", "s", "e">>, freq |-> 22],
    [key |-> <<"p", "a", "s", "s">>, freq |-> 21],
    [key |-> <<"s", "e", "l", "l">>, freq |-> 20],
    [key |-> <<"d", "e", "c", "i", "d", "e">>, freq |-> 19],
    [key |-> <<"r", "e", "t", "u", "r", "n">>, freq |-> 18],
    [key |-> <<"e", "x", "p", "l", "a", "i", "n">>, freq |-> 17],
    [key |-> <<"d", "e", "v", "e", "l", "o", "p">>, freq |-> 16],
    [key |-> <<"c", "a", "r", "r", "y">>, freq |-> 15],
    [key |-> <<"b", "r", "e", "a", "k">>, freq |-> 14],
    [key |-> <<"r", "e", "c", "e", "i", "v", "e">>, freq |-> 13],
    [key |-> <<"a", "g", "r", "e", "e">>, freq |-> 12],
    [key |-> <<"s", "u", "p", "p", "o", "r", "t">>, freq |-> 11],
    [key |-> <<"h", "i", "t">>, freq |-> 10],
    [key |-> <<"p", "r", "o", "d", "u", "c", "e">>, freq |-> 9],
    [key |-> <<"e", "a", "t">>, freq |-> 8],
    [key |-> <<"c", "o", "v", "e", "r">>, freq |-> 7],
    [key |-> <<"c", "a", "t", "c", "h">>, freq |-> 6],
    [key |-> <<"d", "r", "a", "w">>, freq |-> 5],
    [key |-> <<"c", "h", "o", "o", "s", "e">>, freq |-> 4],
    [key |-> <<"c", "l", "e", "a", "n">>, freq |-> 3],
    [key |-> <<"w", "a", "s", "h">>, freq |-> 2],
    [key |-> <<"c", "o", "o", "k">>, freq |-> 1],
    [key |-> <<"m", "a", "n", "a", "g", "e">>, freq |-> 50],
    [key |-> <<"i", "n", "v", "e", "s", "t">>, freq |-> 49],
    [key |-> <<"n", "e", "g", "o", "t", "i", "a", "t", "e">>, freq |-> 48],
    [key |-> <<"a", "n", "a", "l", "y", "z", "e">>, freq |-> 47],
    [key |-> <<"r", "e", "s", "e", "a", "r", "c", "h">>, freq |-> 46],
    [key |-> <<"d", "e", "s", "i", "g", "n">>, freq |-> 45],
    [key |-> <<"i", "m", "p", "l", "e", "m", "e", "n", "t">>, freq |-> 44],
    [key |-> <<"e", "v", "a", "l", "u", "a", "t", "e">>, freq |-> 43],
    [key |-> <<"i", "m", "p", "r", "o", "v", "e">>, freq |-> 42],
    [key |-> <<"o", "p", "t", "i", "m", "i", "z", "e">>, freq |-> 41],
    [key |-> <<"o", "r", "g", "a", "n", "i", "z", "e">>, freq |-> 40],
    [key |-> <<"c", "o", "o", "r", "d", "i", "n", "a", "t", "e">>, freq |-> 39],
    [key |-> <<"s", "u", "p", "e", "r", "v", "i", "s", "e">>, freq |-> 38],
    [key |-> <<"t", "r", "a", "i", "n">>, freq |-> 37],
    [key |-> <<"g", "u", "i", "d", "e">>, freq |-> 36],
    [key |-> <<"d", "i", "r", "e", "c", "t">>, freq |-> 35],
    [key |-> <<"e", "x", "e", "c", "u", "t", "e">>, freq |-> 34],
    [key |-> <<"o", "p", "e", "r", "a", "t", "e">>, freq |-> 33],
    [key |-> <<"m", "a", "i", "n", "t", "a", "i", "n">>, freq |-> 32],
    [key |-> <<"e", "s", "t", "a", "b", "l", "i", "s", "h">>, freq |-> 31],
    [key |-> <<"a", "c", "h", "i", "e", "v", "e">>, freq |-> 30],
    [key |-> <<"a", "c", "c", "o", "m", "p", "l", "i", "s", "h">>, freq |-> 29],
    [key |-> <<"c", "o", "m", "p", "l", "e", "t", "e">>, freq |-> 28],
    [key |-> <<"p", "e", "r", "f", "o", "r", "m">>, freq |-> 27],
    [key |-> <<"c", "o", "n", "d", "u", "c", "t">>, freq |-> 26],
    [key |-> <<"m", "a", "n", "a", "g", "e">>, freq |-> 25],
    [key |-> <<"h", "a", "n", "d", "l", "e">>, freq |-> 24],
    [key |-> <<"p", "r", "o", "c", "e", "s", "s">>, freq |-> 23],
    [key |-> <<"r", "e", "v", "i", "e", "w">>, freq |-> 22],
    [key |-> <<"a", "s", "s", "e", "s", "s">>, freq |-> 21],
    [key |-> <<"e", "x", "a", "m", "i", "n", "e">>, freq |-> 20],
    [key |-> <<"i", "n", "v", "e", "s", "t", "i", "g", "a", "t", "e">>, freq |-> 19],
    [key |-> <<"e", "x", "p", "l", "o", "r", "e">>, freq |-> 18],
    [key |-> <<"d", "i", "s", "c", "o", "v", "e", "r">>, freq |-> 17],
    [key |-> <<"i", "d", "e", "n", "t", "i", "f", "y">>, freq |-> 16],
    [key |-> <<"d", "e", "f", "i", "n", "e">>, freq |-> 15],
    [key |-> <<"d", "e", "s", "c", "r", "i", "b", "e">>, freq |-> 14],
    [key |-> <<"d", "i", "s", "c", "u", "s", "s">>, freq |-> 13],
    [key |-> <<"a", "r", "g", "u", "e">>, freq |-> 12],
    [key |-> <<"d", "e", "b", "a", "t", "e">>, freq |-> 11],
    [key |-> <<"c", "r", "i", "t", "i", "q", "u", "e">>, freq |-> 10],
    [key |-> <<"c", "o", "m", "p", "a", "r", "e">>, freq |-> 9],
    [key |-> <<"c", "o", "n", "t", "r", "a", "s", "t">>, freq |-> 8],
    [key |-> <<"s", "y", "n", "t", "h", "e", "s", "i", "z", "e">>, freq |-> 7],
    [key |-> <<"s", "u", "m", "m", "a", "r", "i", "z", "e">>, freq |-> 6],
    [key |-> <<"p", "a", "r", "a", "p", "h", "r", "a", "s", "e">>, freq |-> 5],
    [key |-> <<"c", "i", "t", "e">>, freq |-> 4],
    [key |-> <<"r", "e", "f", "e", "r", "e", "n", "c", "e">>, freq |-> 3],
    [key |-> <<"s", "y", "n", "t", "h", "e", "s", "i", "z", "e">>, freq |-> 25],
    [key |-> <<"e", "l", "u", "c", "i", "d", "a", "t", "e">>, freq |-> 24],
    [key |-> <<"i", "n", "s", "t", "i", "t", "u", "t", "i", "o", "n", "a", "l", "i", "z", "e">>, freq |-> 23],
    [key |-> <<"s", "y", "s", "t", "e", "m", "a", "t", "i", "z", "e">>, freq |-> 22],
    [key |-> <<"m", "e", "t", "h", "o", "d", "i", "z", "e">>, freq |-> 21],
    [key |-> <<"s", "t", "a", "n", "d", "a", "r", "d", "i", "z", "e">>, freq |-> 20],
    [key |-> <<"c", "o", "m", "m", "e", "r", "c", "i", "a", "l", "i", "z", "e">>, freq |-> 19],
    [key |-> <<"m", "o", "n", "e", "t", "i", "z", "e">>, freq |-> 18],
    [key |-> <<"c", "a", "p", "i", "t", "a", "l", "i", "z", "e">>, freq |-> 17],
    [key |-> <<"l", "e", "v", "e", "r", "a", "g", "e">>, freq |-> 16],
    [key |-> <<"d", "i", "f", "f", "e", "r", "e", "n", "t", "i", "a", "t", "e">>, freq |-> 15],
    [key |-> <<"d", "i", "s", "t", "i", "n", "g", "u", "i", "s", "h">>, freq |-> 14],
    [key |-> <<"c", "o", "m", "p", "r", "e", "h", "e", "n", "d">>, freq |-> 13],
    [key |-> <<"a", "p", "p", "r", "e", "h", "e", "n", "d">>, freq |-> 12],
    [key |-> <<"c", "o", "n", "c", "e", "p", "t", "u", "a", "l", "i", "z", "e">>, freq |-> 11],
    [key |-> <<"p", "h", "i", "l", "o", "s", "o", "p", "h", "i", "z", "e">>, freq |-> 10],
    [key |-> <<"t", "h", "e", "o", "r", "i", "z", "e">>, freq |-> 9],
    [key |-> <<"h", "y", "p", "o", "t", "h", "e", "s", "i", "z", "e">>, freq |-> 8],
    [key |-> <<"m", "e", "t", "h", "o", "d", "o", "l", "o", "g", "i", "z", "e">>, freq |-> 7],
    [key |-> <<"o", "p", "e", "r", "a", "t", "i", "o", "n", "a", "l", "i", "z", "e">>, freq |-> 6],
    [key |-> <<"c", "o", "n", "c", "e", "p", "t", "u", "a", "l", "i", "z", "e">>, freq |-> 5],
    [key |-> <<"r", "a", "t", "i", "o", "n", "a", "l", "i", "z", "e">>, freq |-> 4],
    [key |-> <<"c", "a", "t", "e", "g", "o", "r", "i", "z", "e">>, freq |-> 3],
    [key |-> <<"p", "r", "i", "o", "r", "i", "t", "i", "z", "e">>, freq |-> 2] >>

\* wordFrequency[str] !== undefined for an own property
HasFreq(str) == \E i \in 1..Len(wordFrequency) : wordFrequency[i].key = str

\* wordFrequency[str]: of a key written twice the later value is kept
Freq(str) ==
    LET last == CHOOSE i \in 1..Len(wordFrequency) :
                    /\ wordFrequency[i].key = str
                    /\ \A j \in (i + 1)..Len(wordFrequency) :
                           wordFrequency[j].key # str
    IN  wordFrequency[last].freq

\* Object.keys(wordFrequency)
Keys == {wordFrequency[i].key : i \in 1..Len(wordFrequency)}

levelMapping ==
    [beginner     |-> {w \in Keys : Freq(w) >= 50},
     intermediate |-> {w \in Keys : Freq(w) >= 20 /\ Freq(w) < 50},
     advanced     |-> {w \in Keys : Freq(w) < 20}]

\* str.startsWith(p)
startsWith(str, p) ==
    /\ Len(p) <= Len(str)
    /\ \A i \in 1..Len(p) : str[i] = p[i]

\* str.endsWith(s) for a string s of any length
endsWithString(str, s) ==
    /\ Len(s) <= Len(str)
    /\ \A i \in 1..Len(s) : str[Len(str) - Len(s) + i] = s[i]

\* str.includes(s)
includesString(str, s) ==
    \E k \in 0..(Len(str) - Len(s)) : \A i \in 1..Len(s) : str[k + i] = s[i]

complexPrefixes ==
    {<<"i", "n", "s", "t", "i", "t", "u", "t", "i", "o", "n", "a", "l">>,
     <<"s", "y", "s", "t", "e", "m", "a", "t">>,
     <<"m", "e", "t", "h", "o", "d", "o", "l", "o", "g">>,
     <<"o", "p", "e", "r", "a", "t", "i", "o", "n", "a", "l">>,
     <<"c", "o", "n", "c", "e", "p", "t", "u", "a", "l">>,
     <<"p", "h", "i", "l", "o", "s", "o", "p", "h">>,
     <<"t", "h", "e", "o", "r">>,
     <<"h", "y", "p", "o", "t", "h", "e", "s">>}

complexSuffixes == {<<"i", "z", "e">>, <<"i", "f", "y">>, <<"a", "t", "e">>}

\* the three tests on the lists of levelMapping
MatchesBeginner(verbLower) ==
    \E v \in levelMapping.beginner :
        verbLower = v \/ startsWith(verbLower, v) \/ endsWithString(verbLower, v)

MatchesIntermediate(verbLower) ==
    \E v \in levelMapping.intermediate :
        verbLower = v \/ includesString(verbLower, v)

MatchesAdvanced(verbLower) ==
    \E v \in levelMapping.advanced :
        verbLower = v \/ includesString(verbLower, v)

\* the test on prefixes and suffixes
IsComplex(verbLower) ==
    \/ \E p \in complexPrefixes : startsWith(verbLower, p)
    \/ /\ Len(verbLower) > 12
       /\ \E s \in complexSuffixes : endsWithString(verbLower, s)

\* the length test with the second threshold at 7
ByLength_Seven(str) ==
    IF Len(str) <= 4 THEN "beginner"
    ELSE IF Len(str) <= 7 THEN "intermediate"
    ELSE "advanced"

\* the last three lines of determineLevel
ByLength(str) ==
    IF Len(str) <= 4 THEN "beginner"
    ELSE IF Len(str) <= 8 THEN "intermediate"
    ELSE "advanced"

\* determineLevel with the two lower levels of the table exchanged
determineLevel_Exchanged(str) ==
    LET verbLower == toLowerCase(str)
    IN  IF HasFreq(verbLower)
        THEN IF Freq(verbLower) >= 50 THEN "beginner"
             ELSE IF Freq(verbLower) >= 20 THEN "advanced"
             ELSE "intermediate"
        ELSE IF verbLower \in Inherited THEN "advanced"
        ELSE IF MatchesBeginner(verbLower) THEN "beginner"
        ELSE IF MatchesIntermediate(verbLower) THEN "intermediate"
        ELSE IF MatchesAdvanced(verbLower) THEN "advanced"
        ELSE IF IsComplex(verbLower) THEN "advanced"
        ELSE ByLength(str)

\* determineLevel asking the advanced list before the intermediate list
determineLevel_AdvancedFirst(str) ==
    LET verbLower == toLowerCase(str)
    IN  IF HasFreq(verbLower)
        THEN IF Freq(verbLower) >= 50 THEN "beginner"
             ELSE IF Freq(verbLower) >= 20 THEN "intermediate"
             ELSE "advanced"
        ELSE IF verbLower \in Inherited THEN "advanced"
        ELSE IF MatchesBeginner(verbLower) THEN "beginner"
        ELSE IF MatchesAdvanced(verbLower) THEN "advanced"
        ELSE IF MatchesIntermediate(verbLower) THEN "intermediate"
        ELSE IF IsComplex(verbLower) THEN "advanced"
        ELSE ByLength(str)

\* determineLevel without the look-up in wordFrequency
determineLevel_NoTable(str) ==
    LET verbLower == toLowerCase(str)
    IN  IF MatchesBeginner(verbLower) THEN "beginner"
        ELSE IF MatchesIntermediate(verbLower) THEN "intermediate"
        ELSE IF MatchesAdvanced(verbLower) THEN "advanced"
        ELSE IF IsComplex(verbLower) THEN "advanced"
        ELSE ByLength(str)

determineLevel(str) ==
    LET verbLower == toLowerCase(str)
    IN  IF HasFreq(verbLower)
        THEN IF Freq(verbLower) >= 50 THEN "beginner"
             ELSE IF Freq(verbLower) >= 20 THEN "intermediate"
             ELSE "advanced"
        \* an inherited name is !== undefined and not a number: both
        \* comparisons with it are false
        ELSE IF verbLower \in Inherited THEN "advanced"
        ELSE IF MatchesBeginner(verbLower) THEN "beginner"
        ELSE IF MatchesIntermediate(verbLower) THEN "intermediate"
        ELSE IF MatchesAdvanced(verbLower) THEN "advanced"
        ELSE IF IsComplex(verbLower) THEN "advanced"
        ELSE ByLength(str)

\* the level is set for the entries that have none, one after the other
DetermineLevel ==
    /\ pending # <<>>
    /\ verb' = Head(pending)
    /\ pending' = Tail(pending)
    /\ ret' = [op |-> "determineLevel", verb |-> Head(pending),
               result |-> determineLevel(Head(pending)), before |-> ret]
    /\ UNCHANGED <<clock, wordBankStore, progressStore, vocabVars, pageVars, quizVars, outcomes>>

\* words outside the table: some match a list, a prefix, or nothing at all
LevelWords == {
    <<"s", "h", "o", "w", "i", "n", "g">>,
    <<"h", "e", "a", "r", "t", "b", "r", "e", "a", "k">>,
    <<"w", "i", "n", "d", "b", "r", "e", "a", "k">>,
    <<"t", "h", "e", "o", "r", "y">>,
    <<"t", "h", "e", "o", "r", "e", "m">>,
    <<"s", "y", "s", "t", "e", "m", "a", "t", "i", "z", "e", "s">>,
    <<"i", "n", "s", "t", "i", "t", "u", "t", "i", "o", "n", "a", "l", "i", "z", "e", "d">>,
    <<"p", "h", "i", "l", "o", "s", "o", "p", "h", "i", "z", "e", "s">>,
    <<"n", "a", "p">>,
    <<"j", "u", "m", "p">>,
    <<"l", "a", "u", "g", "h">>,
    <<"w", "a", "n", "d", "e", "r">>,
    <<"s", "p", "r", "i", "n", "k", "l", "e">>,
    <<"c", "e", "l", "e", "b", "r", "a", "t", "e">>,
    <<"c", "o", "n", "g", "r", "a", "t", "u", "l", "a", "t", "i", "o", "n", "s">>,
    <<"g", "o", "a", "t">>,
    <<"s", "e", "a", "t">>,
    <<"g", "o", "i", "n", "g">>,
    <<"u", "n", "d", "e", "r", "g", "o">>,
    <<"f", "o", "r", "g", "e", "t">>,
    <<"a">> }

LevelInputs ==
    Keys \cup Spellings(<<"s", "e", "l", "l">>) \cup LevelWords \cup Inherited

----------------------------------------------------------------------------
(* The vocabulary list: vocabularyData, its copy in localStorage, and the  *)
(* handlers that add to it.  A handler that awaits the network is a task   *)
(* with a position; between the start of a generation and the push of its  *)
(* entries the code reads and writes its own locals only, so one run is    *)
(* two steps, its start and the push.  One task is kept for each button.   *)
(* The examples and the quiz of an entry are left out.                     *)

Category == "sehari-hari"       \* categories[0], the category that is generated
OtherCategory == "bisnis"       \* another category the services may name

NoLevel == "undefined"          \* v.level of an entry written without a level

\* vocabularyData as the script defines it: the 70 entries, without their
\* examples and quizzes
AllStaticData == <<
    [id |-> 1, v1 |-> <<"g", "o">>, v2 |-> <<"w", "e", "n", "t">>,
     v3 |-> <<"g", "o", "n", "e">>,
     meaning |-> <<"p", "e", "r", "g", "i">>,
     type |-> "irregular", category |-> "sehari-hari", level |-> NoLevel],
    [id |-> 2, v1 |-> <<"e", "a", "t">>, v2 |-> <<"a", "t", "e">>,
     v3 |-> <<"e", "a", "t", "e", "n">>,
     meaning |-> <<"m", "a", "k", "a", "n">>,
     type |-> "irregular", category |-> "makanan", level |-> NoLevel],
    [id |-> 3, v1 |-> <<"s", "e", "e">>, v2 |-> <<"s", "a", "w">>,
     v3 |-> <<"s", "e", "e", "n">>,
     meaning |-> <<"m", "e", "l", "i", "h", "a", "t">>,
     type |-> "irregular", category |-> "sehari-hari", level |-> NoLevel],
    [id |-> 4, v1 |-> <<"t", "a", "k", "e">>, v2 |-> <<"t", "o", "o", "k">>,
     v3 |-> <<"t", "a", "k", "e", "n">>,
     meaning |-> <<"m", "e", "n", "g", "a", "m", "b", "i", "l">>,
     type |-> "irregular", category |-> "sehari-hari", level |-> NoLevel],
    [id |-> 5, v1 |-> <<"c", "o", "m", "e">>, v2 |-> <<"c", "a", "m", "e">>,
     v3 |-> <<"c", "o", "m", "e">>,
     meaning |-> <<"d", "a", "t", "a", "n", "g">>,
     type |-> "irregular", category |-> "sehari-hari", level |-> NoLevel],
    [id |-> 6, v1 |-> <<"g", "e", "t">>, v2 |-> <<"g", "o", "t">>,
     v3 |-> <<"g", "o", "t", "t", "e", "n">>,
     meaning |-> <<"m", "e", "n", "d", "a", "p", "a", "t", "k", "a", "n">>,
     type |-> "irregular", category |-> "sehari-hari", level |-> NoLevel],
    [id |-> 7, v1 |-> <<"m", "a", "k", "e">>, v2 |-> <<"m", "a", "d", "e">>,
     v3 |-> <<"m", "a", "d", "e">>,
     meaning |-> <<"m", "e", "m", "b", "u", "a", "t">>,
     type |-> "irregular", category |-> "sehari-hari", level |-> NoLevel],
    [id |-> 8, v1 |-> <<"k", "n", "o", "w">>, v2 |-> <<"k", "n", "e", "w">>,
     v3 |-> <<"k", "n", "o", "w", "n">>,
     meaning |-> <<"t", "a", "h", "u", ",", " ", "m", "e", "n", "g", "e", "t", "a", "h", "u", "i">>,
     type |-> "irregular", category |-> "sehari-hari", level |-> NoLevel],
    [id |-> 9, v1 |-> <<"t", "h", "i", "n", "k">>, v2 |-> <<"t", "h", "o", "u", "g", "h", "t">>,
     v3 |-> <<"t", "h", "o", "u", "g", "h", "t">>,
     meaning |-> <<"b", "e", "r", "p", "i", "k", "i", "r">>,
     type |-> "irregular", category |-> "perasaan", level |-> NoLevel],
    [id |-> 10, v1 |-> <<"g", "i", "v", "e">>, v2 |-> <<"g", "a", "v", "e">>,
     v3 |-> <<"g", "i", "v", "e", "n">>,
     meaning |-> <<"m", "e", "m", "b", "e", "r", "i">>,
     type |-> "irregular", category |-> "sehari-hari", level |-> NoLevel],
    [id |-> 11, v1 |-> <<"f", "i", "n", "d">>, v2 |-> <<"f", "o", "u", "n", "d">>,
     v3 |-> <<"f", "o", "u", "n", "d">>,
     meaning |-> <<"m", "e", "n", "e", "m", "u", "k", "a", "n">>,
     type |-> "irregular", category |-> "sehari-hari", level |-> NoLevel],
    [id |-> 12, v1 |-> <<"t", "e", "l", "l">>, v2 |-> <<"t", "o", "l", "d">>,
     v3 |-> <<"t", "o", "l", "d">>,
     meaning |-> <<"m", "e", "m", "b", "e", "r", "i", "t", "a", "h", "u">>,
     type |-> "irregular", category |-> "sehari-hari", level |-> NoLevel],
    [id |-> 13, v1 |-> <<"w", "o", "r", "k">>, v2 |-> <<"w", "o", "r", "k", "e", "d">>,
     v3 |-> <<"w", "o", "r", "k", "e", "d">>,
     meaning |-> <<"b", "e", "k", "e", "r", "j", "a">>,
     type |-> "common", category |-> "bisnis", level |-> NoLevel],
    [id |-> 14, v1 |-> <<"c", "a", "l", "l">>, v2 |-> <<"c", "a", "l", "l", "e", "d">>,
     v3 |-> <<"c", "a", "l", "l", "e", "d">>,
     meaning |-> <<"m", "e", "m", "a", "n", "g", "g", "i", "l", ",", " ", "m", "e", "n", "e", "l", "e", "p", "o", "n">>,
     type |-> "common", category |-> "sehari-hari", level |-> NoLevel],
    [id |-> 15, v1 |-> <<"t", "r", "y">>, v2 |-> <<"t", "r", "i", "e", "d">>,
     v3 |-> <<"t", "r", "i", "e", "d">>,
     meaning |-> <<"m", "e", "n", "c", "o", "b", "a">>,
     type |-> "common", category |-> "sehari-hari", level |-> NoLevel],
    [id |-> 16, v1 |-> <<"a", "s", "k">>, v2 |-> <<"a", "s", "k", "e", "d">>,
     v3 |-> <<"a", "s", "k", "e", "d">>,
     meaning |-> <<"b", "e", "r", "t", "a", "n", "y", "a", ",", " ", "m", "e", "m", "i", "n", "t", "a">>,
     type |-> "common", category |-> "sehari-hari", level |-> NoLevel],
    [id |-> 17, v1 |-> <<"n", "e", "e", "d">>, v2 |-> <<"n", "e", "e", "d", "e", "d">>,
     v3 |-> <<"n", "e", "e", "d", "e", "d">>,
     meaning |-> <<"m", "e", "m", "b", "u", "t", "u", "h", "k", "a", "n">>,
     type |-> "common", category |-> "sehari-hari", level |-> NoLevel],
    [id |-> 18, v1 |-> <<"w", "a", "n", "t">>, v2 |-> <<"w", "a", "n", "t", "e", "d">>,
     v3 |-> <<"w", "a", "n", "t", "e", "d">>,
     meaning |-> <<"i", "n", "g", "i", "n">>,
     type |-> "common", category |-> "sehari-hari", level |-> NoLevel],
    [id |-> 19, v1 |-> <<"u", "s", "e">>, v2 |-> <<"u", "s", "e", "d">>,
     v3 |-> <<"u", "s", "e", "d">>,
     meaning |-> <<"m", "e", "n", "g", "g", "u", "n", "a", "k", "a", "n">>,
     type |-> "common", category |-> "teknologi", level |-> NoLevel],
    [id |-> 20, v1 |-> <<"h", "e", "l", "p">>, v2 |-> <<"h", "e", "l", "p", "e", "d">>,
     v3 |-> <<"h", "e", "l", "p", "e", "d">>,
     meaning |-> <<"m", "e", "m", "b", "a", "n", "t", "u">>,
     type |-> "common", category |-> "sehari-hari", level |-> NoLevel],
    [id |-> 21, v1 |-> <<"m", "a", "n", "a", "g", "e">>, v2 |-> <<"m", "a", "n", "a", "g", "e", "d">>,
     v3 |-> <<"m", "a", "n", "a", "g", "e", "d">>,
     meaning |-> <<"m", "e", "n", "g", "e", "l", "o", "l", "a", ",", " ", "m", "e", "n", "g", "a", "t", "u", "r">>,
     type |-> "common", category |-> "bisnis", level |-> NoLevel],
    [id |-> 22, v1 |-> <<"i", "n", "v", "e", "s", "t">>, v2 |-> <<"i", "n", "v", "e", "s", "t", "e", "d">>,
     v3 |-> <<"i", "n", "v", "e", "s", "t", "e", "d">>,
     meaning |-> <<"b", "e", "r", "i", "n", "v", "e", "s", "t", "a", "s", "i">>,
     type |-> "common", category |-> "bisnis", level |-> NoLevel],
    [id |-> 23, v1 |-> <<"n", "e", "g", "o", "t", "i", "a", "t", "e">>, v2 |-> <<"n", "e", "g", "o", "t", "i", "a", "t", "e", "d">>,
     v3 |-> <<"n", "e", "g", "o", "t", "i", "a", "t", "e", "d">>,
     meaning |-> <<"b", "e", "r", "n", "e", "g", "o", "s", "i", "a", "s", "i">>,
     type |-> "common", category |-> "bisnis", level |-> NoLevel],
    [id |-> 24, v1 |-> <<"h", "i", "r", "e">>, v2 |-> <<"h", "i", "r", "e", "d">>,
     v3 |-> <<"h", "i", "r", "e", "d">>,
     meaning |-> <<"m", "e", "m", "p", "e", "k", "e", "r", "j", "a", "k", "a", "n">>,
     type |-> "common", category |-> "bisnis", level |-> NoLevel],
    [id |-> 25, v1 |-> <<"s", "e", "l", "l">>, v2 |-> <<"s", "o", "l", "d">>,
     v3 |-> <<"s", "o", "l", "d">>,
     meaning |-> <<"m", "e", "n", "j", "u", "a", "l">>,
     type |-> "irregular", category |-> "bisnis", level |-> NoLevel],
    [id |-> 26, v1 |-> <<"b", "u", "y">>, v2 |-> <<"b", "o", "u", "g", "h", "t">>,
     v3 |-> <<"b", "o", "u", "g", "h", "t">>,
     meaning |-> <<"m", "e", "m", "b", "e", "l", "i">>,
     type |-> "irregular", category |-> "bisnis", level |-> NoLevel],
    [id |-> 27, v1 |-> <<"m", "e", "e", "t">>, v2 |-> <<"m", "e", "t">>,
     v3 |-> <<"m", "e", "t">>,
     meaning |-> <<"b", "e", "r", "t", "e", "m", "u">>,
     type |-> "irregular", category |-> "bisnis", level |-> NoLevel],
    [id |-> 28, v1 |-> <<"p", "r", "e", "s", "e", "n", "t">>, v2 |-> <<"p", "r", "e", "s", "e", "n", "t", "e", "d">>,
     v3 |-> <<"p", "r", "e", "s", "e", "n", "t", "e", "d">>,
     meaning |-> <<"m", "e", "m", "p", "r", "e", "s", "e", "n", "t", "a", "s", "i", "k", "a", "n">>,
     type |-> "common", category |-> "bisnis", level |-> NoLevel],
    [id |-> 29, v1 |-> <<"c", "h", "i", "l", "l">>, v2 |-> <<"c", "h", "i", "l", "l", "e", "d">>,
     v3 |-> <<"c", "h", "i", "l", "l", "e", "d">>,
     meaning |-> <<"s", "a", "n", "t", "a", "i", ",", " ", "n", "o", "n", "g", "k", "r", "o", "n", "g">>,
     type |-> "common", category |-> "slang", level |-> NoLevel],
    [id |-> 30, v1 |-> <<"h", "a", "n", "g">>, v2 |-> <<"h", "u", "n", "g">>,
     v3 |-> <<"h", "u", "n", "g">>,
     meaning |-> <<"n", "o", "n", "g", "k", "r", "o", "n", "g", ",", " ", "b", "e", "r", "g", "a", "u", "l">>,
     type |-> "irregular", category |-> "slang", level |-> NoLevel],
    [id |-> 31, v1 |-> <<"b", "a", "i", "l">>, v2 |-> <<"b", "a", "i", "l", "e", "d">>,
     v3 |-> <<"b", "a", "i", "l", "e", "d">>,
     meaning |-> <<"b", "a", "t", "a", "l", ",", " ", "c", "a", "b", "u", "t">>,
     type |-> "common", category |-> "slang", level |-> NoLevel],
    [id |-> 32, v1 |-> <<"c", "r", "u", "s", "h">>, v2 |-> <<"c", "r", "u", "s", "h", "e", "d">>,
     v3 |-> <<"c", "r", "u", "s", "h", "e", "d">>,
     meaning |-> <<"n", "a", "k", "s", "i", "r", ",", " ", "m", "e", "n", "y", "u", "k", "a", "i">>,
     type |-> "common", category |-> "slang", level |-> NoLevel],
    [id |-> 33, v1 |-> <<"s", "t", "u", "d", "y">>, v2 |-> <<"s", "t", "u", "d", "i", "e", "d">>,
     v3 |-> <<"s", "t", "u", "d", "i", "e", "d">>,
     meaning |-> <<"b", "e", "l", "a", "j", "a", "r">>,
     type |-> "common", category |-> "akademik", level |-> NoLevel],
    [id |-> 34, v1 |-> <<"r", "e", "s", "e", "a", "r", "c", "h">>, v2 |-> <<"r", "e", "s", "e", "a", "r", "c", "h", "e", "d">>,
     v3 |-> <<"r", "e", "s", "e", "a", "r", "c", "h", "e", "d">>,
     meaning |-> <<"m", "e", "n", "e", "l", "i", "t", "i">>,
     type |-> "common", category |-> "akademik", level |-> NoLevel],
    [id |-> 35, v1 |-> <<"a", "n", "a", "l", "y", "z", "e">>, v2 |-> <<"a", "n", "a", "l", "y", "z", "e", "d">>,
     v3 |-> <<"a", "n", "a", "l", "y", "z", "e", "d">>,
     meaning |-> <<"m", "e", "n", "g", "a", "n", "a", "l", "i", "s", "i", "s">>,
     type |-> "common", category |-> "akademik", level |-> NoLevel],
    [id |-> 36, v1 |-> <<"w", "r", "i", "t", "e">>, v2 |-> <<"w", "r", "o", "t", "e">>,
     v3 |-> <<"w", "r", "i", "t", "t", "e", "n">>,
     meaning |-> <<"m", "e", "n", "u", "l", "i", "s">>,
     type |-> "irregular", category |-> "akademik", level |-> NoLevel],
    [id |-> 37, v1 |-> <<"r", "e", "a", "d">>, v2 |-> <<"r", "e", "a", "d">>,
     v3 |-> <<"r", "e", "a", "d">>,
     meaning |-> <<"m", "e", "m", "b", "a", "c", "a">>,
     type |-> "irregular", category |-> "akademik", level |-> NoLevel],
    [id |-> 38, v1 |-> <<"d", "o", "w", "n", "l", "o", "a", "d">>, v2 |-> <<"d", "o", "w", "n", "l", "o", "a", "d", "e", "d">>,
     v3 |-> <<"d", "o", "w", "n", "l", "o", "a", "d", "e", "d">>,
     meaning |-> <<"m", "e", "n", "g", "u", "n", "d", "u", "h">>,
     type |-> "common", category |-> "teknologi", level |-> NoLevel],
    [id |-> 39, v1 |-> <<"u", "p", "l", "o", "a", "d">>, v2 |-> <<"u", "p", "l", "o", "a", "d", "e", "d">>,
     v3 |-> <<"u", "p", "l", "o", "a", "d", "e", "d">>,
     meaning |-> <<"m", "e", "n", "g", "u", "n", "g", "g", "a", "h">>,
     type |-> "common", category |-> "teknologi", level |-> NoLevel],
    [id |-> 40, v1 |-> <<"c", "o", "d", "e">>, v2 |-> <<"c", "o", "d", "e", "d">>,
     v3 |-> <<"c", "o", "d", "e", "d">>,
     meaning |-> <<"m", "e", "m", "b", "u", "a", "t", " ", "k", "o", "d", "e", " ", "p", "r", "o", "g", "r", "a", "m">>,
     type |-> "common", category |-> "teknologi", level |-> NoLevel],
    [id |-> 41, v1 |-> <<"s", "t", "r", "e", "a", "m">>, v2 |-> <<"s", "t", "r", "e", "a", "m", "e", "d">>,
     v3 |-> <<"s", "t", "r", "e", "a", "m", "e", "d">>,
     meaning |-> <<"m", "e", "n", "o", "n", "t", "o", "n", " ", "s", "t", "r", "e", "a", "m", "i", "n", "g">>,
     type |-> "common", category |-> "teknologi", level |-> NoLevel],
    [id |-> 42, v1 |-> <<"c", "l", "i", "c", "k">>, v2 |-> <<"c", "l", "i", "c", "k", "e", "d">>,
     v3 |-> <<"c", "l", "i", "c", "k", "e", "d">>,
     meaning |-> <<"m", "e", "n", "g", "k", "l", "i", "k">>,
     type |-> "common", category |-> "teknologi", level |-> NoLevel],
    [id |-> 43, v1 |-> <<"f", "e", "e", "l">>, v2 |-> <<"f", "e", "l", "t">>,
     v3 |-> <<"f", "e", "l", "t">>,
     meaning |-> <<"m", "e", "r", "a", "s", "a">>,
     type |-> "irregular", category |-> "perasaan", level |-> NoLevel],
    [id |-> 44, v1 |-> <<"l", "o", "v", "e">>, v2 |-> <<"l", "o", "v", "e", "d">>,
     v3 |-> <<"l", "o", "v", "e", "d">>,
     meaning |-> <<"m", "e", "n", "c", "i", "n", "t", "a", "i">>,
     type |-> "common", category |-> "perasaan", level |-> NoLevel],
    [id |-> 45, v1 |-> <<"h", "a", "t", "e">>, v2 |-> <<"h", "a", "t", "e", "d">>,
     v3 |-> <<"h", "a", "t", "e", "d">>,
     meaning |-> <<"m", "e", "m", "b", "e", "n", "c", "i">>,
     type |-> "common", category |-> "perasaan", level |-> NoLevel],
    [id |-> 46, v1 |-> <<"w", "o", "r", "r", "y">>, v2 |-> <<"w", "o", "r", "r", "i", "e", "d">>,
     v3 |-> <<"w", "o", "r", "r", "i", "e", "d">>,
     meaning |-> <<"k", "h", "a", "w", "a", "t", "i", "r">>,
     type |-> "common", category |-> "perasaan", level |-> NoLevel],
    [id |-> 47, v1 |-> <<"e", "n", "j", "o", "y">>, v2 |-> <<"e", "n", "j", "o", "y", "e", "d">>,
     v3 |-> <<"e", "n", "j", "o", "y", "e", "d">>,
     meaning |-> <<"m", "e", "n", "i", "k", "m", "a", "t", "i">>,
     type |-> "common", category |-> "perasaan", level |-> NoLevel],
    [id |-> 48, v1 |-> <<"t", "r", "a", "v", "e", "l">>, v2 |-> <<"t", "r", "a", "v", "e", "l", "l", "e", "d">>,
     v3 |-> <<"t", "r", "a", "v", "e", "l", "l", "e", "d">>,
     meaning |-> <<"b", "e", "p", "e", "r", "g", "i", "a", "n">>,
     type |-> "common", category |-> "perjalanan", level |-> NoLevel],
    [id |-> 49, v1 |-> <<"v", "i", "s", "i", "t">>, v2 |-> <<"v", "i", "s", "i", "t", "e", "d">>,
     v3 |-> <<"v", "i", "s", "i", "t", "e", "d">>,
     meaning |-> <<"m", "e", "n", "g", "u", "n", "j", "u", "n", "g", "i">>,
     type |-> "common", category |-> "perjalanan", level |-> NoLevel],
    [id |-> 50, v1 |-> <<"b", "o", "o", "k">>, v2 |-> <<"b", "o", "o", "k", "e", "d">>,
     v3 |-> <<"b", "o", "o", "k", "e", "d">>,
     meaning |-> <<"m", "e", "m", "e", "s", "a", "n">>,
     type |-> "common", category |-> "perjalanan", level |-> NoLevel],
    [id |-> 51, v1 |-> <<"p", "a", "c", "k">>, v2 |-> <<"p", "a", "c", "k", "e", "d">>,
     v3 |-> <<"p", "a", "c", "k", "e", "d">>,
     meaning |-> <<"m", "e", "n", "g", "e", "m", "a", "s">>,
     type |-> "common", category |-> "perjalanan", level |-> NoLevel],
    [id |-> 52, v1 |-> <<"c", "o", "o", "k">>, v2 |-> <<"c", "o", "o", "k", "e", "d">>,
     v3 |-> <<"c", "o", "o", "k", "e", "d">>,
     meaning |-> <<"m", "e", "m", "a", "s", "a", "k">>,
     type |-> "common", category |-> "makanan", level |-> NoLevel],
    [id |-> 53, v1 |-> <<"t", "a", "s", "t", "e">>, v2 |-> <<"t", "a", "s", "t", "e", "d">>,
     v3 |-> <<"t", "a", "s", "t", "e", "d">>,
     meaning |-> <<"m", "e", "n", "c", "i", "c", "i", "p", "i">>,
     type |-> "common", category |-> "makanan", level |-> NoLevel],
    [id |-> 54, v1 |-> <<"o", "r", "d", "e", "r">>, v2 |-> <<"o", "r", "d", "e", "r", "e", "d">>,
     v3 |-> <<"o", "r", "d", "e", "r", "e", "d">>,
     meaning |-> <<"m", "e", "m", "e", "s", "a", "n">>,
     type |-> "common", category |-> "makanan", level |-> NoLevel],
    [id |-> 55, v1 |-> <<"d", "r", "i", "n", "k">>, v2 |-> <<"d", "r", "a", "n", "k">>,
     v3 |-> <<"d", "r", "u", "n", "k">>,
     meaning |-> <<"m", "i", "n", "u", "m">>,
     type |-> "irregular", category |-> "makanan", level |-> NoLevel],
    [id |-> 56, v1 |-> <<"p", "l", "a", "y">>, v2 |-> <<"p", "l", "a", "y", "e", "d">>,
     v3 |-> <<"p", "l", "a", "y", "e", "d">>,
     meaning |-> <<"b", "e", "r", "m", "a", "i", "n">>,
     type |-> "common", category |-> "olahraga", level |-> NoLevel],
    [id |-> 57, v1 |-> <<"r", "u", "n">>, v2 |-> <<"r", "a", "n">>,
     v3 |-> <<"r", "u", "n">>,
     meaning |-> <<"b", "e", "r", "l", "a", "r", "i">>,
     type |-> "irregular", category |-> "olahraga", level |-> NoLevel],
    [id |-> 58, v1 |-> <<"s", "w", "i", "m">>, v2 |-> <<"s", "w", "a", "m">>,
     v3 |-> <<"s", "w", "u", "m">>,
     meaning |-> <<"b", "e", "r", "e", "n", "a", "n", "g">>,
     type |-> "irregular", category |-> "olahraga", level |-> NoLevel],
    [id |-> 59, v1 |-> <<"j", "u", "m", "p">>, v2 |-> <<"j", "u", "m", "p", "e", "d">>,
     v3 |-> <<"j", "u", "m", "p", "e", "d">>,
     meaning |-> <<"m", "e", "l", "o", "m", "p", "a", "t">>,
     type |-> "common", category |-> "olahraga", level |-> NoLevel],
    [id |-> 60, v1 |-> <<"w", "i", "n">>, v2 |-> <<"w", "o", "n">>,
     v3 |-> <<"w", "o", "n">>,
     meaning |-> <<"m", "e", "n", "a", "n", "g">>,
     type |-> "irregular", category |-> "olahraga", level |-> NoLevel],
    [id |-> 61, v1 |-> <<"e", "x", "e", "r", "c", "i", "s", "e">>, v2 |-> <<"e", "x", "e", "r", "c", "i", "s", "e", "d">>,
     v3 |-> <<"e", "x", "e", "r", "c", "i", "s", "e", "d">>,
     meaning |-> <<"b", "e", "r", "o", "l", "a", "h", "r", "a", "g", "a">>,
     type |-> "common", category |-> "kesehatan", level |-> NoLevel],
    [id |-> 62, v1 |-> <<"s", "l", "e", "e", "p">>, v2 |-> <<"s", "l", "e", "p", "t">>,
     v3 |-> <<"s", "l", "e", "p", "t">>,
     meaning |-> <<"t", "i", "d", "u", "r">>,
     type |-> "irregular", category |-> "kesehatan", level |-> NoLevel],
    [id |-> 63, v1 |-> <<"r", "e", "s", "t">>, v2 |-> <<"r", "e", "s", "t", "e", "d">>,
     v3 |-> <<"r", "e", "s", "t", "e", "d">>,
     meaning |-> <<"b", "e", "r", "i", "s", "t", "i", "r", "a", "h", "a", "t">>,
     type |-> "common", category |-> "kesehatan", level |-> NoLevel],
    [id |-> 64, v1 |-> <<"h", "e", "a", "l">>, v2 |-> <<"h", "e", "a", "l", "e", "d">>,
     v3 |-> <<"h", "e", "a", "l", "e", "d">>,
     meaning |-> <<"s", "e", "m", "b", "u", "h">>,
     type |-> "common", category |-> "kesehatan", level |-> NoLevel],
    [id |-> 65, v1 |-> <<"c", "u", "r", "e">>, v2 |-> <<"c", "u", "r", "e", "d">>,
     v3 |-> <<"c", "u", "r", "e", "d">>,
     meaning |-> <<"m", "e", "n", "y", "e", "m", "b", "u", "h", "k", "a", "n">>,
     type |-> "common", category |-> "kesehatan", level |-> NoLevel],
    [id |-> 66, v1 |-> <<"s", "p", "e", "a", "k">>, v2 |-> <<"s", "p", "o", "k", "e">>,
     v3 |-> <<"s", "p", "o", "k", "e", "n">>,
     meaning |-> <<"b", "e", "r", "b", "i", "c", "a", "r", "a">>,
     type |-> "irregular", category |-> "sehari-hari", level |-> NoLevel],
    [id |-> 67, v1 |-> <<"l", "i", "s", "t", "e", "n">>, v2 |-> <<"l", "i", "s", "t", "e", "n", "e", "d">>,
     v3 |-> <<"l", "i", "s", "t", "e", "n", "e", "d">>,
     meaning |-> <<"m", "e", "n", "d", "e", "n", "g", "a", "r", "k", "a", "n">>,
     type |-> "common", category |-> "sehari-hari", level |-> NoLevel],
    [id |-> 68, v1 |-> <<"w", "a", "t", "c", "h">>, v2 |-> <<"w", "a", "t", "c", "h", "e", "d">>,
     v3 |-> <<"w", "a", "t", "c", "h", "e", "d">>,
     meaning |-> <<"m", "e", "n", "o", "n", "t", "o", "n">>,
     type |-> "common", category |-> "sehari-hari", level |-> NoLevel],
    [id |-> 69, v1 |-> <<"c", "l", "e", "a", "n">>, v2 |-> <<"c", "l", "e", "a", "n", "e", "d">>,
     v3 |-> <<"c", "l", "e", "a", "n", "e", "d">>,
     meaning |-> <<"m", "e", "m", "b", "e", "r", "s", "i", "h", "k", "a", "n">>,
     type |-> "common", category |-> "sehari-hari", level |-> NoLevel],
    [id |-> 70, v1 |-> <<"w", "a", "s", "h">>, v2 |-> <<"w", "a", "s", "h", "e", "d">>,
     v3 |-> <<"w", "a", "s", "h", "e", "d">>,
     meaning |-> <<"m", "e", "n", "c", "u", "c", "i">>,
     type |-> "common", category |-> "sehari-hari", level |-> NoLevel] >>

\* its first entry, the list the handlers that add entries start from
StaticData == SubSeq(AllStaticData, 1, 1)

\* verbPatterns['sehari-hari'], its first five verbs
patterns == <<<<"d", "o">>, <<"s", "a", "y">>, <<"g", "e", "t">>,
              <<"m", "a", "k", "e">>, <<"g", "o">>>>

\* the prefixes of generateBulkVocabulary, the first two
prefixes == <<<<"r", "e">>, <<"u", "n">>>>

\* the prefixes of generateCategoryVocabulary, the first two
categoryPrefixes == <<<<"r", "e">>, <<"u", "n">>>>

\* what the translation and AI services hand back for one entry: a meaning
\* (no text when none of them answers) and a category
NoAnswer == <<>>

Contents == {<<"m", "1">>, <<"m", "2">>}

Services == [meaning : Contents \cup {NoAnswer},
             category : {Category, OtherCategory}]

\* the services as far as the handlers that add entries tell them apart
FewServices == [meaning : {<<"m", "1">>, NoAnswer},
                category : {Category, OtherCategory}]

\* getMeaningWithAI with its fall-backs: the word itself when nothing answers
Meaning(svc, word) == IF svc.meaning = NoAnswer THEN word ELSE svc.meaning

Digits == <<"0", "1", "2", "3", "4", "5", "6", "7", "8", "9">>

\* baseVerb + numSuffix appends the number in decimal, 0 <= n < 100
NumberString(n) ==
    IF n < 10 THEN <<Digits[n + 1]>>
    ELSE <<Digits[(n \div 10) + 1], Digits[(n % 10) + 1]>>

RECURSIVE trimStart(_)
trimStart(str) ==
    IF str # <<>> /\ Head(str) = " " THEN trimStart(Tail(str)) ELSE str

RECURSIVE trimEnd(_)
trimEnd(str) ==
    IF str # <<>> /\ str[Len(str)] = " "
    THEN trimEnd(SubSeq(str, 1, Len(str) - 1))
    ELSE str

trim(str) == trimEnd(trimStart(str))

\* data.map(v => v.id)
IdsOf(data) == {data[i].id : i \in 1..Len(data)}

\* data.map(v => v.v1.toLowerCase())
V1sOf(data) == {toLowerCase(data[i].v1) : i \in 1..Len(data)}

\* data.length > 0 ? Math.max(...data.map(v => v.id || 0)) : 0
MaxIdOf(data) ==
    IF data = <<>> THEN 0
    ELSE CHOOSE m \in IdsOf(data) : \A n \in IdsOf(data) : n <= m

getAllVocabulary ==
    IF vocabStore.present
    THEN vocabularyData \o
            SelectSeq(vocabStore.value,
                      LAMBDA v : v.id \notin IdsOf(vocabularyData))
    ELSE vocabularyData

\* the entry generateBulkVocabulary and generateCategoryVocabulary build
BuiltEntry(word, id, svc) ==
    LET verbForms == getVerbForms(word)
    IN  [id |-> id, v1 |-> verbForms.v1, v2 |-> verbForms.v2,
         v3 |-> verbForms.v3, meaning |-> Meaning(svc, word),
         type |-> verbForms.type, category |-> svc.category,
         level |-> determineLevel(word)]

\* fetchWordFromAPI taking the level for advanced when no service answers
fetchWordFromAPI_ByAnswer(word, svc, data) ==
    [BuiltEntry(word, Len(data) + 1, svc) EXCEPT
        !.level = IF svc.meaning = NoAnswer THEN "advanced"
                  ELSE determineLevel(word)]

fetchWordFromAPI(word, svc, data) == BuiltEntry(word, Len(data) + 1, svc)

\* vocabularyData.forEach(v => { if (!v.level) v.level = determineLevel(v.v1) })
WithLevels(data) ==
    [i \in 1..Len(data) |->
        IF data[i].level = NoLevel
        THEN [data[i] EXCEPT !.level = determineLevel(data[i].v1)]
        ELSE data[i]]

\* loadVocabularyFromStorage on the vocabularyData of a fresh page
Loaded ==
    IF vocabStore.present /\ vocabStore.value # <<>>
    THEN LET existingV1s == V1sOf(StaticData)
             newItems == SelectSeq(vocabStore.value,
                            LAMBDA v : toLowerCase(v.v1) \notin existingV1s)
         IN  WithLevels(StaticData \o newItems)
    ELSE IF vocabStore.present THEN StaticData
    ELSE WithLevels(StaticData)

\* the while loop of generateBulkVocabulary: the verbs it makes entries of
RECURSIVE BulkLoop(_, _, _, _)
BulkLoop(existingV1s, generated, attempts, needed) ==
    IF ~(Len(generated) < needed /\ attempts < needed * 10)
    THEN generated
    ELSE LET a == attempts + 1
             k == Len(generated) + a - 1
             baseVerb == patterns[(k % Len(patterns)) + 1]
             cycleCount == k \div Len(patterns)
             prefixed ==
                 IF cycleCount > 0
                 THEN prefixes[((cycleCount - 1) % Len(prefixes)) + 1]
                         \o baseVerb
                 ELSE baseVerb
             over == a - Len(patterns) * Len(prefixes)
             numSuffix == IF over > 0 THEN over \div Len(patterns) ELSE 0
             verb0 == IF over > 0 /\ numSuffix > 0 /\ numSuffix < 100
                      THEN baseVerb \o NumberString(numSuffix)
                      ELSE prefixed
             verbLower == toLowerCase(verb0)
         IN  IF verbLower \in existingV1s \/ Len(verb0) < 2 \/ Len(verb0) > 20
             THEN BulkLoop(existingV1s, generated, a, needed)
             ELSE BulkLoop(existingV1s \cup {verbLower},
                           Append(generated, verb0), a, needed)

\* the while loop of generateCategoryVocabulary
RECURSIVE CategoryLoop(_, _, _, _, _)
CategoryLoop(existingV1s, usedPatterns, generated, attempts, needed) ==
    IF ~(Len(generated) < needed /\ attempts < needed * 20)
    THEN generated
    ELSE LET a == attempts + 1
             baseVerb == patterns[((Len(generated) + a) % Len(patterns)) + 1]
             base == toLowerCase(baseVerb)
             free == {i \in 1..Len(categoryPrefixes) :
                         /\ toLowerCase(categoryPrefixes[i] \o baseVerb)
                               \notin existingV1s
                         /\ Len(categoryPrefixes[i] \o baseVerb) <= 20}
             first == CHOOSE i \in free : \A j \in free : i <= j
             verb0 == IF base \notin existingV1s /\ base \notin usedPatterns
                      THEN baseVerb
                      ELSE IF free # {}
                      THEN categoryPrefixes[first] \o baseVerb
                      ELSE <<>>
             verbLower == toLowerCase(verb0)
         IN  IF verb0 = <<>> \/ Len(verb0) < 2 \/ Len(verb0) > 20
             THEN CategoryLoop(existingV1s, usedPatterns, generated, a, needed)
             ELSE IF verbLower \in existingV1s
             THEN CategoryLoop(existingV1s, usedPatterns \cup {verbLower},
                               generated, a, needed)
             ELSE CategoryLoop(existingV1s \cup {verbLower},
                               usedPatterns \cup {verbLower},
                               Append(generated, verb0), a, needed)

\* vocabPerCategory less the entries of the category, not below 0
Needed ==
    LET existingCount ==
            Cardinality({i \in 1..Len(vocabularyData) :
                            vocabularyData[i].category = Category})
    IN  IF vocabPerCategory > existingCount
        THEN vocabPerCategory - existingCount ELSE 0

\* a task that is not running
Idle == [pc |-> "idle", word |-> <<>>, all |-> FALSE, verbs |-> <<>>,
         currentMaxId |-> 0, index |-> 0]

\* a generation as it starts: the verbs it will add and the ids it counts from
generateBulkVocabulary ==
    [Idle EXCEPT !.pc = "await", !.all = TRUE,
                 !.verbs = BulkLoop(V1sOf(getAllVocabulary), <<>>, 0, Needed),
                 !.currentMaxId = MaxIdOf(vocabularyData)]

generateCategoryVocabulary ==
    [Idle EXCEPT !.pc = "await",
                 !.verbs = CategoryLoop(V1sOf(getAllVocabulary), {}, <<>>, 0,
                                        Needed),
                 !.currentMaxId = MaxIdOf(vocabularyData)]

\* generated, with what the services answered for each verb
Generated(task, svcs) ==
    [i \in 1..Len(task.verbs) |->
        BuiltEntry(task.verbs[i], task.currentMaxId + i, svcs[i])]

----------------------------------------------------------------------------
(* The list that is shown: filters, search box and pages.                  *)

itemsPerPage == 12

\* Math.ceil(n / itemsPerPage)
TotalPages(n) == (n + itemsPerPage - 1) \div itemsPerPage

\* the search of changePage and filterAndSearch in the fields of an entry
MatchesTerm(vocab, term) ==
    \/ includesString(toLowerCase(vocab.v1), term)
    \/ includesString(toLowerCase(vocab.v2), term)
    \/ includesString(toLowerCase(vocab.v3), term)
    \/ includesString(toLowerCase(vocab.meaning), term)

\* the filters of changePage and filterAndSearch, one after the other
Filtered(data, category, level, type, searchTerm) ==
    SelectSeq(data, LAMBDA vocab :
        /\ category # "all" => vocab.category = category
        /\ level # "all" => vocab.level = level
        /\ type # "all" => vocab.type = type
        /\ searchTerm # <<>> => MatchesTerm(vocab, toLowerCase(searchTerm)))

\* filterAndSearch called with resetPage = false
filterAndSearch_KeepPage(searchTerm, data, category, level, type) ==
    /\ currentPage' = currentPage
    /\ rendered' = Len(Filtered(data, category, level, type, searchTerm))

\* filterAndSearch(searchTerm) with its default resetPage, on the list and
\* the filters of the moment it is called
filterAndSearch(searchTerm, data, category, level, type) ==
    /\ currentPage' = 1
    /\ rendered' = Len(Filtered(data, category, level, type, searchTerm))

\* filterAndSearch at the end of a handler that sets no filter
Refresh(searchTerm, data) ==
    /\ filterAndSearch(searchTerm, data, currentCategory, currentLevel,
                       currentType)
    /\ UNCHANGED <<currentCategory, currentType, currentLevel>>

changePage(page) ==
    \E filtered \in {Filtered(vocabularyData, currentCategory, currentLevel,
                              currentType, searchInput)} :
    LET totalPages == TotalPages(Len(filtered))
        atLeast    == IF page < 1 THEN 1 ELSE page
        atMost     == IF atLeast > totalPages /\ totalPages > 0
                      THEN totalPages ELSE atLeast
    IN  /\ currentPage' = atMost
        /\ rendered' = Len(filtered)
        /\ ret' = [op |-> "changePage", page |-> page]
        /\ UNCHANGED <<currentCategory, currentType, currentLevel, searchInput,
                       favoritesStore, tabs, trainerVars, vocabVars, quizVars,
                       outcomes>>

\* a text typed in the search box: the input event
TypeSearch(term) ==
    /\ searchInput' = term
    /\ Refresh(term, vocabularyData)
    /\ ret' = [op |-> "filterAndSearch", filter |-> "search"]
    /\ UNCHANGED <<favoritesStore, tabs, trainerVars, vocabVars, quizVars,
                   outcomes>>

\* the click on an item of the category dropdown or on a category button
FilterCategory(category) ==
    /\ currentCategory' = category
    /\ filterAndSearch(searchInput, vocabularyData, category, currentLevel,
                       currentType)
    /\ ret' = [op |-> "filterAndSearch", filter |-> "category"]
    /\ UNCHANGED <<currentType, currentLevel, searchInput, favoritesStore,
                   tabs, trainerVars, vocabVars, quizVars, outcomes>>

\* the click on a level button
FilterLevel(level) ==
    /\ currentLevel' = level
    /\ filterAndSearch(searchInput, vocabularyData, currentCategory, level,
                       currentType)
    /\ ret' = [op |-> "filterAndSearch", filter |-> "level"]
    /\ UNCHANGED <<currentCategory, currentType, searchInput, favoritesStore,
                   tabs, trainerVars, vocabVars, quizVars, outcomes>>

\* the click on a type button
FilterType(type) ==
    /\ currentType' = type
    /\ filterAndSearch(searchInput, vocabularyData, currentCategory,
                       currentLevel, type)
    /\ ret' = [op |-> "filterAndSearch", filter |-> "type"]
    /\ UNCHANGED <<currentCategory, currentLevel, searchInput, favoritesStore,
                   tabs, trainerVars, vocabVars, quizVars, outcomes>>

getFavorites == IF favoritesStore.present THEN favoritesStore.value ELSE <<>>

\* toggleFavorite, and the list shown again by toggleFavoriteVocab
toggleFavorite(vocabId) ==
    LET favorites == getFavorites
        index     == indexOf(favorites, vocabId)
    IN  /\ favoritesStore' = Item(IF index > 0 THEN splice(favorites, index)
                                  ELSE Append(favorites, vocabId))
        /\ ret' = [op |-> "toggleFavorite", id |-> vocabId,
                   result |-> index = 0]
        /\ Refresh(searchInput, vocabularyData)
        /\ UNCHANGED <<trainerVars, vocabVars, tabs, searchInput, quizVars,
                       outcomes>>

\* entries in vocabularyData and entries the running tasks will push
Planned ==
    Len(vocabularyData) + Len(bulkTask.verbs) + Len(categoryTask.verbs)
        + (IF searchTask.pc = "fetch" THEN 1 ELSE 0)

\* a text typed in the search box (the input event shows the list filtered
\* by it) and the click on searchApiBtn, up to the await of fetchWordFromAPI
SearchClick(input) ==
    LET word == toLowerCase(trim(input))
    IN  /\ ~disabled.search
        /\ Planned < MaxVocab
        /\ IF word = <<>> \/ word \in V1sOf(getAllVocabulary)
           THEN UNCHANGED <<searchTask, disabled>>
           ELSE /\ searchTask' = [Idle EXCEPT !.pc = "fetch", !.word = word]
                /\ disabled' = [disabled EXCEPT !.search = TRUE]
        /\ searchInput' = input
        /\ Refresh(input, vocabularyData)
        /\ UNCHANGED <<vocabularyData, vocabStore, bulkTask, categoryTask,
                       improveTask, regenerateTask, ret, trainerVars,
                       favoritesStore, tabs, quizVars, outcomes>>

\* the rest of the handler, once fetchWordFromAPI has returned
SearchFinish(svc) ==
    /\ searchTask.pc = "fetch"
    /\ LET newVocab == fetchWordFromAPI(searchTask.word, svc, vocabularyData)
           maxId == MaxIdOf(getAllVocabulary)
           added == Append(vocabularyData, [newVocab EXCEPT !.id = maxId + 1])
       IN  /\ vocabularyData' = added
           /\ vocabStore' = Item(added)
           /\ ret' = [op |-> "fetchWordFromAPI", word |-> searchTask.word,
                      svc |-> svc, result |-> newVocab]
           /\ Refresh(<<>>, added)
    /\ searchInput' = <<>>
    /\ searchTask' = Idle
    /\ disabled' = [disabled EXCEPT !.search = FALSE]
    /\ UNCHANGED <<bulkTask, categoryTask, improveTask, regenerateTask,
                   trainerVars, favoritesStore, tabs, quizVars, outcomes>>

\* the click on generateBulkBtn: the generation starts, or finds nothing to
\* add and the handler saves and ends
BulkClick ==
    LET run == generateBulkVocabulary
    IN  /\ ~disabled.bulk
        /\ bulkTask.pc = "idle"
        /\ Planned + Len(run.verbs) <= MaxVocab
        /\ IF run.verbs = <<>>
           THEN /\ vocabStore' = Item(vocabularyData)
                /\ Refresh(<<>>, vocabularyData)
                /\ UNCHANGED <<bulkTask, disabled>>
           ELSE /\ bulkTask' = run
                /\ disabled' = [disabled EXCEPT !.bulk = TRUE]
                /\ UNCHANGED <<vocabStore, currentPage, rendered,
                               currentCategory, currentType, currentLevel>>
        /\ UNCHANGED <<vocabularyData, searchTask, categoryTask, improveTask,
                       regenerateTask, ret, trainerVars, searchInput,
                       favoritesStore, tabs, quizVars, outcomes>>

\* the entries are pushed, the handler saves and enables the button again
BulkFinish(svcs) ==
    /\ bulkTask.pc = "await"
    /\ LET added == vocabularyData \o Generated(bulkTask, svcs)
       IN  /\ vocabularyData' = added
           /\ vocabStore' = Item(added)
           /\ Refresh(<<>>, added)
    /\ bulkTask' = Idle
    /\ disabled' = [disabled EXCEPT !.bulk = FALSE]
    /\ ret' = [op |-> "generateBulkVocabulary"]
    /\ UNCHANGED <<searchTask, categoryTask, improveTask, regenerateTask,
                   trainerVars, searchInput, favoritesStore, tabs, quizVars,
                   outcomes>>

\* the click on generateCategoryBtn with 'all' or with the category chosen:
\* 'all' disables generateBulkBtn, a category disables generateCategoryBtn
CategoryClick(all) ==
    LET run == IF all THEN generateBulkVocabulary
               ELSE generateCategoryVocabulary
    IN  /\ ~disabled.category
        /\ categoryTask.pc = "idle"
        /\ Planned + Len(run.verbs) <= MaxVocab
        /\ IF run.verbs = <<>>
           THEN /\ vocabStore' = Item(vocabularyData)
                /\ disabled' = IF all THEN [disabled EXCEPT !.bulk = FALSE]
                               ELSE [disabled EXCEPT !.category = FALSE]
                /\ Refresh(<<>>, vocabularyData)
                /\ UNCHANGED categoryTask
           ELSE /\ categoryTask' = [run EXCEPT !.all = all]
                /\ disabled' = IF all THEN [disabled EXCEPT !.bulk = TRUE]
                               ELSE [disabled EXCEPT !.category = TRUE]
                /\ UNCHANGED <<vocabStore, currentPage, rendered,
                               currentCategory, currentType, currentLevel>>
        /\ UNCHANGED <<vocabularyData, searchTask, bulkTask, improveTask,
                       regenerateTask, ret, trainerVars, searchInput,
                       favoritesStore, tabs, quizVars, outcomes>>

CategoryFinish(svcs) ==
    /\ categoryTask.pc = "await"
    /\ LET added == vocabularyData \o Generated(categoryTask, svcs)
       IN  /\ vocabularyData' = added
           /\ vocabStore' = Item(added)
           /\ Refresh(<<>>, added)
    /\ disabled' = IF categoryTask.all THEN [disabled EXCEPT !.bulk = FALSE]
                   ELSE [disabled EXCEPT !.category = FALSE]
    /\ categoryTask' = Idle
    /\ ret' = [op |-> "generateCategoryVocabulary"]
    /\ UNCHANGED <<searchTask, bulkTask, improveTask, regenerateTask,
                   trainerVars, searchInput, favoritesStore, tabs, quizVars,
                   outcomes>>

\* the page is opened again: the script starts from its own list, every
\* running handler is gone, and loadVocabularyFromStorage merges and saves
PageLoad ==
    /\ vocabularyData' = Loaded
    /\ vocabStore' = IF vocabStore.present /\ vocabStore.value = <<>>
                     THEN vocabStore ELSE Item(Loaded)
    /\ searchTask' = Idle
    /\ bulkTask' = Idle
    /\ categoryTask' = Idle
    /\ improveTask' = Idle
    /\ regenerateTask' = Idle
    /\ disabled' = [search |-> FALSE, bulk |-> FALSE, category |-> FALSE]
    /\ ret' = [op |-> "load"]
    /\ currentCategory' = "all"
    /\ currentType' = "all"
    /\ currentLevel' = "all"
    /\ searchInput' = <<>>
    /\ filterAndSearch(<<>>, Loaded, "all", "all", "all")
    /\ currentQuiz' = Null
    /\ options' = "none"
    /\ timers' = <<>>
    /\ UNCHANGED <<trainerVars, favoritesStore, tabs, outcomes>>

\* vocabularyData.find(v => v.id === vocabId): its place, 0 when not found
FindById(vocabId) ==
    IF \E i \in 1..Len(vocabularyData) : vocabularyData[i].id = vocabId
    THEN CHOOSE i \in 1..Len(vocabularyData) :
            /\ vocabularyData[i].id = vocabId
            /\ \A j \in 1..(i - 1) : vocabularyData[j].id # vocabId
    ELSE 0

\* vocab.meaning = improvedMeaning; vocab.category = improvedCategory
Improved(data, i, svc) ==
    [data EXCEPT ![i].meaning = Meaning(svc, data[i].v1),
                 ![i].category = svc.category]

\* the click on the Improve button of an entry, up to the first await
ImproveClick(vocabId) ==
    /\ improveTask.pc = "idle"
    /\ IF FindById(vocabId) = 0
       THEN UNCHANGED improveTask
       ELSE improveTask' = [Idle EXCEPT !.pc = "await",
                                        !.index = FindById(vocabId)]
    /\ UNCHANGED <<vocabularyData, vocabStore, searchTask, bulkTask,
                   categoryTask, regenerateTask, disabled, ret, trainerVars,
                   pageVars, quizVars, outcomes>>

\* the three requests have been answered and the entry is updated and
\* saved, or one of them failed and nothing is changed
ImproveFinish(svc, ok) ==
    /\ improveTask.pc = "await"
    /\ LET after == IF ok THEN Improved(vocabularyData, improveTask.index, svc)
                    ELSE vocabularyData
       IN  /\ vocabularyData' = after
           /\ vocabStore' = IF ok THEN Item(after) ELSE vocabStore
           /\ ret' = [op |-> "improveVocabWithAI", ok |-> ok,
                      before |-> vocabularyData, after |-> after]
           /\ IF ok THEN Refresh(searchInput, after) ELSE UNCHANGED listVars
    /\ improveTask' = Idle
    /\ UNCHANGED <<searchTask, bulkTask, categoryTask, regenerateTask,
                   disabled, trainerVars, searchInput, favoritesStore, tabs,
                   quizVars, outcomes>>

\* regenerateAllWithAI up to the first await of its first entry
RegenerateClick ==
    /\ regenerateTask.pc = "idle"
    /\ IF vocabularyData = <<>>
       THEN /\ vocabStore' = Item(vocabularyData)
            /\ Refresh(searchInput, vocabularyData)
            /\ UNCHANGED regenerateTask
       ELSE /\ regenerateTask' = [Idle EXCEPT !.pc = "await", !.index = 1]
            /\ UNCHANGED <<vocabStore, currentPage, rendered, currentCategory,
                           currentType, currentLevel>>
    /\ UNCHANGED <<vocabularyData, searchTask, bulkTask, categoryTask,
                   improveTask, disabled, ret, trainerVars, searchInput,
                   favoritesStore, tabs, quizVars, outcomes>>

\* one entry of the loop: updated, or left alone after a failed request;
\* after the last entry the list is saved
RegenerateStep(svc, ok) ==
    /\ regenerateTask.pc = "await"
    /\ LET i == regenerateTask.index
           after == IF ok THEN Improved(vocabularyData, i, svc)
                    ELSE vocabularyData
       IN  /\ vocabularyData' = after
           /\ IF i + 1 <= Len(after)
              THEN /\ regenerateTask' = [regenerateTask EXCEPT !.index = i + 1]
                   /\ UNCHANGED <<vocabStore, currentPage, rendered,
                                  currentCategory, currentType, currentLevel>>
              ELSE /\ regenerateTask' = Idle
                   /\ vocabStore' = Item(after)
                   /\ Refresh(searchInput, after)
           /\ ret' = [op |-> "regenerateAllWithAI", ok |-> ok,
                      before |-> vocabularyData, after |-> after]
    /\ UNCHANGED <<searchTask, bulkTask, categoryTask, improveTask,
                   disabled, trainerVars, searchInput, favoritesStore, tabs,
                   quizVars, outcomes>>

\* the first visit: nothing in localStorage, the page has just been loaded
\* the state of the page after its first load with the list data
LoadOf(data) ==
    /\ vocabularyData = WithLevels(data)
    /\ vocabStore = Item(WithLevels(data))
    /\ searchTask = Idle
    /\ bulkTask = Idle
    /\ categoryTask = Idle
    /\ improveTask = Idle
    /\ regenerateTask = Idle
    /\ disabled = [search |-> FALSE, bulk |-> FALSE, category |-> FALSE]
    /\ favoritesStore = NoItem(<<>>)
    /\ tabs = [t \in Tabs |-> IdleTab]
    /\ currentQuiz = Null
    /\ options = "none"
    /\ timers = <<>>
    /\ currentPage = 1
    /\ currentCategory = "all"
    /\ currentType = "all"
    /\ currentLevel = "all"
    /\ searchInput = <<>>
    /\ rendered = Len(vocabularyData)
    /\ outcomes = [i \in Ids |-> 0]

FirstLoad == LoadOf(StaticData)

\* what is typed in the search box
SearchInputs == {<<"d", "o">>, <<" ", "D", "o", " ">>, <<"s", "a", "y">>,
                 <<"g", "o">>, <<" ">>}

InitVocab ==
    /\ clock = Epoch
    /\ wordBankStore = NoItem(<<>>)
    /\ progressStore = NoItem(NoProgress)
    /\ ret = [op |-> "load"]
    /\ verb = <<>>
    /\ pending = <<>>
    /\ FirstLoad

NextVocab ==
    \/ \E input \in SearchInputs : SearchClick(input)
    \/ \E svc \in FewServices : SearchFinish(svc)
    \/ BulkClick
    \/ \E svcs \in [1..Len(bulkTask.verbs) -> FewServices] : BulkFinish(svcs)
    \/ \E all \in BOOLEAN : CategoryClick(all)
    \/ \E svcs \in [1..Len(categoryTask.verbs) -> FewServices] :
          CategoryFinish(svcs)
    \/ PageLoad

SpecVocab == InitVocab /\ [][NextVocab]_vars

\* the search and the improvement of entries, each with services that
\* answer or fail
NextEnrich ==
    \/ \E input \in SearchInputs :
          Len(vocabularyData) < MaxEnriched /\ SearchClick(input)
    \/ \E svc \in FewServices : SearchFinish(svc)
    \/ \E vocabId \in 1..MaxEnriched : ImproveClick(vocabId)
    \/ \E svc \in FewServices, ok \in BOOLEAN : ImproveFinish(svc, ok)
    \/ RegenerateClick
    \/ \E svc \in FewServices, ok \in BOOLEAN : RegenerateStep(svc, ok)

SpecEnrich == InitVocab /\ [][NextEnrich]_vars

----------------------------------------------------------------------------
(* Verb forms and levels of typed words.                                   *)

InitForms ==
    /\ clock = Epoch
    /\ wordBankStore = NoItem(<<>>)
    /\ progressStore = NoItem(NoProgress)
    /\ ret = [op |-> "load"]
    /\ verb \in TypedVerbs
    /\ pending = <<>>
    /\ FirstLoad

NextForms == GetVerbForms

SpecForms == InitForms /\ [][NextForms]_vars

\* one entry without a level, or two entries with words of the table
InitLevel ==
    /\ clock = Epoch
    /\ wordBankStore = NoItem(<<>>)
    /\ progressStore = NoItem(NoProgress)
    /\ ret = [op |-> "load"]
    /\ verb = <<>>
    /\ pending \in {<<w>> : w \in LevelInputs}
                    \cup {<<w1, w2>> : w1 \in Keys, w2 \in Keys}
    /\ FirstLoad

NextLevel == DetermineLevel

SpecLevel == InitLevel /\ [][NextLevel]_vars

----------------------------------------------------------------------------
(* The quiz: startQuiz, selectOption and its delayed callback, closeQuiz.  *)

\* the sum of the counts f over the ids S
RECURSIVE SumOf(_, _)
SumOf(S, f) ==
    IF S = {} THEN 0
    ELSE LET i == CHOOSE j \in S : TRUE
         IN  f[i] + SumOf(S \ {i}, f)

\* quiz.correct of the entries of the script, in their order
quizCorrect == <<
    1, 2, 1, 1, 1, 1, 1, 2, 1, 1, 1, 1, 1, 1, 1, 1, 0, 0, 1, 1,
    1, 1, 1, 1, 1, 1, 1, 1, 1, 1, 1, 1, 1, 1, 1, 1, 1, 1, 1, 1,
    1, 1, 0, 0, 0, 0, 1, 1, 1, 1, 1, 1, 1, 1, 1, 1, 1, 1, 1, 1 >>

\* the option elements of a quiz
OptionIndexes == 0..3

\* vocab.quiz of startQuiz: the entries of the script have one
HasQuiz(vocabId) == vocabId \in DOMAIN quizCorrect

startQuiz(vocabId) ==
    /\ FindById(vocabId) # 0
    /\ HasQuiz(vocabId)
    /\ currentQuiz' = vocabId
    /\ options' = "open"
    /\ ret' = [op |-> "startQuiz", id |-> vocabId]
    /\ UNCHANGED <<timers, trainerVars, vocabVars, pageVars, outcomes>>

\* the click on an option that still takes clicks; the callback is left with
\* the timers, next to the quiz whose answer scheduled it
selectOption(selectedIndex, a1, a2) ==
    /\ options = "open"
    /\ IF currentQuiz = Null
       THEN /\ ret' = [op |-> "selectOption", id |-> Null]
            /\ UNCHANGED <<quizVars, trainerVars, vocabVars, pageVars,
                           outcomes>>
       ELSE /\ updateProgress(currentQuiz,
                              selectedIndex = quizCorrect[currentQuiz], a1, a2)
            /\ options' = "locked"
            /\ timers' = Append(timers, currentQuiz)
            /\ UNCHANGED currentQuiz

\* the callback of selectOption, 1 second after the answer: it reads
\* currentQuiz.examples[0] of the quiz that is current when it runs
Timeout ==
    /\ timers # <<>>
    /\ ret' = [op |-> "timeout", answered |-> Head(timers),
               currentQuiz |-> currentQuiz,
               TypeError |-> currentQuiz = Null]
    /\ timers' = Tail(timers)
    /\ UNCHANGED <<currentQuiz, options, trainerVars, vocabVars, pageVars,
                   outcomes>>

\* the button Lihat Contoh: the content of the quiz section is replaced
showExamples(vocabId) ==
    /\ FindById(vocabId) # 0
    /\ options' = "none"
    /\ ret' = [op |-> "showExamples", id |-> vocabId]
    /\ UNCHANGED <<currentQuiz, timers, trainerVars, vocabVars, pageVars,
                   outcomes>>

\* the close button, the overlay and the Escape key
closeQuiz ==
    /\ currentQuiz' = Null
    /\ ret' = [op |-> "closeQuiz"]
    /\ UNCHANGED <<options, timers, trainerVars, vocabVars, pageVars,
                   outcomes>>

InitQuiz ==
    /\ clock = Epoch
    /\ wordBankStore = NoItem(<<>>)
    /\ progressStore = NoItem(NoProgress)
    /\ ret = [op |-> "load"]
    /\ verb = <<>>
    /\ pending = <<>>
    /\ LoadOf(SubSeq(AllStaticData, 1, MaxOpened))

NextQuiz ==
    \/ \E id \in 1..MaxOpened : startQuiz(id)
    \/ /\ SumOf(Ids, outcomes) < MaxPlayed
       /\ \E selectedIndex \in OptionIndexes, a1, a2 \in 0..1 :
             selectOption(selectedIndex, a1, a2)
    \/ Timeout
    \/ \E id \in 1..MaxOpened : showExamples(id)
    \/ closeQuiz

SpecQuiz == InitQuiz /\ [][NextQuiz]_vars

\* C28: whenever the callback that selectOption scheduled runs, currentQuiz
\* is not null and is the quiz that was answered
C28_CallbackSeesQuiz ==
    ret.op = "timeout" =>
        /\ ret.currentQuiz # Null
        /\ ret.currentQuiz = ret.answered

----------------------------------------------------------------------------
(* The clock passes between two handlers.                                  *)

Steps == {DayMs - 1, DayMs}

Tick(d) ==
    /\ InRange(clock + d)
    /\ clock' = clock + d
    /\ ret' = [op |-> "tick"]
    /\ UNCHANGED <<wordBankStore, progressStore, verb, pending, vocabVars, pageVars, quizVars, outcomes>>

----------------------------------------------------------------------------
(* The program from a first visit: nothing in localStorage.                *)

Init ==
    /\ clock = Epoch
    /\ wordBankStore = NoItem(<<>>)
    /\ progressStore = NoItem(NoProgress)
    /\ ret = [op |-> "load"]
    /\ verb = <<>>
    /\ pending = <<>>
    /\ FirstLoad

\* an answer to the quiz of a vocabulary entry (selectOption)
Answer(max) ==
    /\ Recorded < max
    /\ \E id \in QuizIds, isCorrect \in BOOLEAN, a1, a2 \in 0..1 :
          updateProgress(id, isCorrect, a1, a2)
    /\ UNCHANGED quizVars

\* the progress tracking alone
Next ==
    \/ Answer(MaxReviews)
    \/ \E d \in Steps : Tick(d)

Spec == Init /\ [][Next]_vars

\* the progress tracking with the word bank and its review list
NextReview ==
    \/ Answer(MaxTracked)
    \/ getWordsForReview
    \/ \E id \in Ids : addToWordBank(id)
    \/ \E id \in Ids : removeFromWordBank(id)
    \/ \E d \in Steps : Tick(d)

SpecReview == Init /\ [][NextReview]_vars

\* everything that reads the progress of an item or lists the item
NextKept ==
    \/ Answer(MaxTracked)
    \/ \E id \in QuizIds : getVocabProgress(id)
    \/ getWordsForReview
    \/ \E id \in QuizIds : addToWordBank(id)
    \/ \E id \in QuizIds : removeFromWordBank(id)
    \/ \E id \in QuizIds : toggleFavorite(id)

SpecKept == Init /\ [][NextKept]_vars

\* the values the filter buttons carry, and texts for the search box
CategoryChoices == {"all", "sehari-hari", "slang"}
LevelChoices    == {"all", "beginner", "intermediate", "advanced"}
TypeChoices     == {"all", "common", "irregular"}
SearchTerms     == {<<>>, <<"M", "e">>, <<"z", "z">>}

\* filterAndSearch called with a text of its own, as the handlers that add
\* entries call it with ''
FilterAndSearch(term) ==
    /\ Refresh(term, vocabularyData)
    /\ ret' = [op |-> "filterAndSearch", filter |-> "none"]
    /\ UNCHANGED <<searchInput, favoritesStore, tabs, trainerVars, vocabVars,
                   quizVars, outcomes>>

\* the page with the whole list of the script
InitPages ==
    /\ clock = Epoch
    /\ wordBankStore = NoItem(<<>>)
    /\ progressStore = NoItem(NoProgress)
    /\ ret = [op |-> "load"]
    /\ verb = <<>>
    /\ pending = <<>>
    /\ LoadOf(AllStaticData)

NextPages ==
    \/ \E page \in -1..MaxPage : changePage(page)
    \/ \E term \in SearchTerms : TypeSearch(term)
    \/ \E term \in SearchTerms : FilterAndSearch(term)
    \/ \E category \in CategoryChoices : FilterCategory(category)
    \/ \E level \in LevelChoices : FilterLevel(level)
    \/ \E type \in TypeChoices : FilterType(type)

SpecPages == InitPages /\ [][NextPages]_vars

\* the word bank alone: items put in, taken out and looked up
NextBank ==
    \/ \E id \in 1..MaxBanked : addToWordBank(id)
    \/ \E id \in 1..MaxBanked : removeFromWordBank(id)
    \/ \E id \in 1..MaxBanked : isInWordBank(id)

SpecBank == Init /\ [][NextBank]_vars

\* answers for the items of the word bank, and the review list as days pass
NextDue ==
    \/ Answer(MaxDue)
    \/ \E id \in QuizIds : addToWordBank(id)
    \/ getWordsForReview
    \/ \E d \in Steps : Tick(d)

SpecDue == Init /\ [][NextDue]_vars

\* the updates that are between their read and their save
Started == Cardinality({t \in Tabs : tabs[t].pc = "read"})

\* two windows on one localStorage, each recording answers
NextShared ==
    \/ \E tab \in Tabs, id \in Ids, isCorrect \in BOOLEAN :
          /\ SumOf(Ids, outcomes) + Started < MaxShared
          /\ ReadProgress(tab, id, isCorrect)
    \/ \E tab \in Tabs, a1, a2 \in 0..1 : SaveProgress(tab, a1, a2)

SpecShared == Init /\ [][NextShared]_vars

\* long runs of answers, the clock passing only within the handlers
NextEase ==
    \/ Answer(MaxAnswers)
    \/ \E id \in QuizIds : getVocabProgress(id)

SpecEase == Init /\ [][NextEase]_vars

\* an answer to the quiz of any vocabulary entry
AnswerAny(max) ==
    /\ Recorded < max
    /\ \E id \in Ids, isCorrect \in BOOLEAN, a1, a2 \in 0..1 :
          updateProgress(id, isCorrect, a1, a2)
    /\ UNCHANGED quizVars

\* the progress tracking over several entries
NextFrame ==
    \/ AnswerAny(MaxFramed)
    \/ \E d \in Steps : Tick(d)

SpecFrame == Init /\ [][NextFrame]_vars

\* localStorage left by an earlier session or edited by hand: item 1 holds a
\* record that has not been reviewed, with one of these eases
StoredEases == {D1_0, D1_3, D2_0, D2_5, D3_0}

InitStored ==
    /\ clock = Epoch
    /\ wordBankStore = NoItem(<<>>)
    /\ \E e \in StoredEases :
          progressStore = Item([i \in {1} |-> [NewProgress(0) EXCEPT !.ease = e]])
    /\ ret = [op |-> "load"]
    /\ verb = <<>>
    /\ pending = <<>>
    /\ FirstLoad

SpecStored == InitStored /\ [][NextEase]_vars

----------------------------------------------------------------------------
(* Properties of the progress tracking.                                    *)

Range(list) == {list[i] : i \in 1..Len(list)}

EaseWithin(e) == FLe(D1_3, e) /\ FLe(e, D2_5)

\* the last call was updateProgress
Updated == ret.op = "updateProgress"

\* the stored record of the item the last updateProgress was called for
Stored == getProgress[ret.id]

\* C1: from an empty progress store, after any sequence of right and wrong
\* answers, the ease of every item is at least 1.3 and at most 2.5.
C1_EaseInRange ==
    \A id \in DOMAIN getProgress : EaseWithin(getProgress[id].ease)

\* the lower clamp acts: a wrong answer on an ease above 1.3 from which 0.2
\* leads below 1.3, after a right answer that was held at 2.5
C1_Witness ==
    /\ Updated /\ ~ret.isCorrect
    /\ FLt(D1_3, ret.before.ease)
    /\ FLt(FSub(ret.before.ease, D0_2), D1_3)
    /\ Stored.ease = D1_3
    /\ Stored.correct >= 1

\* C3: a right answer adds 1 to correct, leaves incorrect alone and sets
\* ease to min(2.5, ease + 0.1).
C3_CorrectOutcome ==
    (Updated /\ ret.isCorrect) =>
        /\ Stored.correct = ret.before.correct + 1
        /\ Stored.incorrect = ret.before.incorrect
        /\ LET sum == FAdd(ret.before.ease, D0_1)
           IN  Stored.ease = IF FLt(D2_5, sum) THEN D2_5 ELSE sum

\* a right answer on an ease below the clamp
C3_Witness ==
    /\ Updated /\ ret.isCorrect
    /\ ret.before.ease = D2_3 /\ Stored.ease = D2_4

\* C4: a wrong answer adds 1 to incorrect, leaves correct alone and sets
\* ease to max(1.3, ease - 0.2).
C4_IncorrectOutcome ==
    (Updated /\ ~ret.isCorrect) =>
        /\ Stored.incorrect = ret.before.incorrect + 1
        /\ Stored.correct = ret.before.correct
        /\ LET diff == FSub(ret.before.ease, D0_2)
           IN  Stored.ease = IF FLt(diff, D1_3) THEN D1_3 ELSE diff

\* a wrong answer on an item that has right answers
C4_Witness ==
    /\ Updated /\ ~ret.isCorrect
    /\ ret.before.correct > 0 /\ Stored.ease = D2_3

C6_NextAfterLast ==
    \A id \in DOMAIN getProgress :
        getProgress[id].lastReview # Null =>
            getProgress[id].nextReview >= getProgress[id].lastReview

\* an item reviewed a second time, once its first nextReview has come and
\* with the clock moving between the two reads
C6_Witness ==
    /\ Updated /\ ~ret.created
    /\ ret.before.nextReview <= ret.t1
    /\ ret.t1 < ret.t2

\* C2 (as claimed): whatever ease is stored, the ease after one update is at
\* least 1.3 and at most 2.5.
C2_ClampOnUpdate == Updated => EaseWithin(Stored.ease)

\* C9 (as claimed): on a new item a wrong answer gives ease 2.3 and
\* nextReview = lastReview + 3 days; a right answer after it gives 2.4 and
\* 3 days; one more right answer gives 2.5 and 3 days, with correct = 2 and
\* incorrect = 1.
C9_EndToEnd ==
    Updated =>
        /\ (ret.created /\ ~ret.isCorrect) =>
              /\ Stored.ease = D2_3
              /\ Stored.nextReview = Stored.lastReview + 3 * DayMs
        /\ (ret.isCorrect /\ ret.before.correct = 0 /\ ret.before.incorrect = 1) =>
              /\ Stored.ease = D2_4
              /\ Stored.nextReview = Stored.lastReview + 3 * DayMs
        /\ (ret.isCorrect /\ ret.before.correct = 1 /\ ret.before.incorrect = 1
              /\ ret.before.ease = D2_4) =>
              /\ Stored.ease = D2_5
              /\ Stored.nextReview = Stored.lastReview + 3 * DayMs
              /\ Stored.correct = 2 /\ Stored.incorrect = 1

----------------------------------------------------------------------------
(* Properties of the review list.                                          *)

\* the last call was getWordsForReview
Listed == ret.op = "getWordsForReview"

\* C7 (as claimed): getWordsForReview returns exactly the items whose
\* nextReview <= now, every item with a progress record among them.
C7_AllDueItems ==
    Listed =>
        /\ \A id \in DOMAIN getProgress :
              getProgress[id].nextReview <= ret.now => id \in Range(ret.result)
        /\ \A id \in Range(ret.result) :
              id \in DOMAIN getProgress => getProgress[id].nextReview <= ret.now

\* C7 (amended): getWordsForReview returns exactly the items of the word bank
\* that have no progress record or whose nextReview <= now, in the order of
\* the word bank.
C7_DueInWordBank ==
    Listed =>
        /\ \A id \in Ids :
              id \in Range(ret.result) <=>
                  /\ id \in Range(getWordBank)
                  /\ id \in DOMAIN getProgress =>
                        getProgress[id].nextReview <= ret.now
        /\ \A i, j \in 1..Len(ret.result) :
              i < j => indexOf(getWordBank, ret.result[i])
                          < indexOf(getWordBank, ret.result[j])

\* one millisecond early: an item of the word bank with nextReview = now + 1
\* is left out, next to an item without progress that is returned
C7_Witness ==
    /\ Listed
    /\ \E id \in Range(getWordBank) \ Range(ret.result) :
          getProgress[id].nextReview = ret.now + 1
    /\ \E id \in Range(ret.result) : id \notin DOMAIN getProgress

\* C8: an item of the word bank that was never reviewed is in the review
\* list, whatever the clock shows.
C8_NewItemDue ==
    Listed =>
        \A id \in Range(getWordBank) :
            id \notin DOMAIN getProgress => id \in Range(ret.result)

\* days after the start, an item without progress is listed while a
\* reviewed item of the word bank is not yet due
C8_Witness ==
    /\ Listed
    /\ ret.now >= Epoch + 2 * DayMs
    /\ \E id \in Range(ret.result) : id \notin DOMAIN getProgress
    /\ \E id \in Range(getWordBank) : id \notin Range(ret.result)

----------------------------------------------------------------------------
(* Properties of the verb forms.                                           *)

\* the last call was getVerbForms
Formed == ret.op = "getVerbForms"

\* C10: for every key of irregularVerbs, typed in any mix of upper and lower
\* case, getVerbForms returns the key in lower case as v1, the v2 and v3 of
\* the table, and the type irregular.
C10_IrregularOverride ==
    \A i \in 1..Len(irregularVerbs) :
        (Formed /\ ret.verb \in Spellings(irregularVerbs[i].key)) =>
            ret.result = [v1 |-> irregularVerbs[i].key,
                          v2 |-> irregularVerbs[i].v2,
                          v3 |-> irregularVerbs[i].v3,
                          type |-> "irregular"]

\* a key typed in mixed case
C10_Witness ==
    /\ Formed
    /\ ret.verb = <<"W", "r", "O", "t", "e">> \/ ret.verb = <<"W", "r", "I", "t", "e">>
    /\ ret.result.v2 = <<"w", "r", "o", "t", "e">>
    /\ ret.result.v3 = <<"w", "r", "i", "t", "t", "e", "n">>

\* the past form the suffix rules give for a base in lower case, the first
\* rule that applies taken: final e, non-vowel and y, vowel and non-vowel
RulePast(base) ==
    LET n == Len(base)
    IN  IF base[n] = "e"
        THEN base \o <<"d">>
        ELSE IF n >= 2 /\ base[n] = "y" /\ base[n - 1] \notin Vowels
        THEN [i \in 1..(n - 1) |-> base[i]] \o <<"i", "e", "d">>
        ELSE IF n >= 2 /\ base[n - 1] \in Vowels /\ base[n] \notin Vowels
        THEN base \o <<base[n], "e", "d">>
        ELSE base \o <<"e", "d">>

\* C11: for every non-empty base that is not a key of irregularVerbs, the
\* past form is the one the suffix rules give, in their order of precedence:
\* final e adds d; else non-vowel and y drops the y and adds ied; else vowel
\* and non-vowel repeats the last letter and adds ed; else ed is added.
C11_RegularRules ==
    (Formed /\ ret.verb # <<>> /\ ~IsKey(toLowerCase(ret.verb))) =>
        ret.result.v2 = RulePast(toLowerCase(ret.verb))

\* a value that is a string of at least one character
NonEmpty(str) == str # Undefined /\ Len(str) >= 1

\* C12: for every non-empty input, v2 and v3 are strings of at least one
\* character, and a result of the regular type ('common') has v2 = v3.
C12_FormsPresent ==
    (Formed /\ ret.verb # <<>>) =>
        /\ NonEmpty(ret.result.v2)
        /\ NonEmpty(ret.result.v3)
        /\ ret.result.type = "common" => ret.result.v2 = ret.result.v3

\* C13: the type is irregular exactly when the base in lower case is a key
\* of irregularVerbs, and the regular type for every other input; no third
\* value is produced.  The code writes the regular type as 'common'.
C13_TypeByTable ==
    Formed =>
        ret.result.type = IF IsKey(toLowerCase(ret.verb))
                          THEN "irregular"
                          ELSE "common"

----------------------------------------------------------------------------
(* Properties of the level.                                                *)

\* the last call was determineLevel
Classified == ret.op = "determineLevel"

\* the level the score of a word of the table stands for
ByScore(freq) ==
    IF freq >= 50 THEN "beginner"
    ELSE IF freq >= 20 THEN "intermediate"
    ELSE "advanced"

Unmatched(w) ==
    /\ ~HasFreq(w)
    /\ ~MatchesBeginner(w)
    /\ ~MatchesIntermediate(w)
    /\ ~MatchesAdvanced(w)
    /\ ~IsComplex(w)

Tier(level) ==
    CASE level = "beginner" -> 1
      [] level = "intermediate" -> 2
      [] level = "advanced" -> 3

\* both scores lie on the same side of the thresholds 50 and 20
SameBracket(f1, f2) ==
    \/ f1 >= 50 /\ f2 >= 50
    \/ f1 >= 20 /\ f1 < 50 /\ f2 >= 20 /\ f2 < 50
    \/ f1 < 20 /\ f2 < 20

\* the last two calls were determineLevel, both with a word of the table
TwoOfTable ==
    /\ Classified
    /\ ret.before.op = "determineLevel"
    /\ HasFreq(toLowerCase(ret.before.verb))
    /\ HasFreq(toLowerCase(ret.verb))

\* C17: of two words of the frequency table the one with the higher score
\* gets the same level or an easier one (beginner before intermediate before
\* advanced), and two words with scores in the same bracket get the same
\* level.
C17_Monotone ==
    TwoOfTable =>
        LET f1 == Freq(toLowerCase(ret.before.verb))
            f2 == Freq(toLowerCase(ret.verb))
        IN  /\ f1 > f2 => Tier(ret.before.result) <= Tier(ret.result)
            /\ SameBracket(f1, f2) => ret.before.result = ret.result

\* two words whose scores differ by one and lie on the two sides of a
\* threshold
C17_Witness ==
    /\ TwoOfTable
    /\ Freq(toLowerCase(ret.before.verb)) = Freq(toLowerCase(ret.verb)) + 1
    /\ Tier(ret.before.result) < Tier(ret.result)

----------------------------------------------------------------------------
(* Properties of the vocabulary list.                                      *)

\* C18: whatever the order in which the search, the generation of all
\* categories, the generation of one category and the loading from storage
\* run and take turns, no two entries of vocabularyData have the same v1,
\* upper and lower case taken as equal.
C18_UniqueV1 ==
    \A i, j \in 1..Len(vocabularyData) :
        i # j =>
            toLowerCase(vocabularyData[i].v1) # toLowerCase(vocabularyData[j].v1)

\* the fields of an entry that the verb forms and the level fill
Core(v) == <<v.v1, v.v2, v.v3, v.type, v.level>>

\* the last call was fetchWordFromAPI
Fetched == ret.op = "fetchWordFromAPI"

\* the last step was an update by improveVocabWithAI or regenerateAllWithAI
Improving == ret.op \in {"improveVocabWithAI", "regenerateAllWithAI"}

\* C19: v1, v2, v3, type and level of the entry fetchWordFromAPI builds are
\* the same whichever answer the translation and AI services give, a failure
\* included, and improveVocabWithAI and regenerateAllWithAI change none of
\* these fields of any entry.
C19_EnrichmentIndependent ==
    /\ Fetched =>
          \A svc \in Services :
              Core(fetchWordFromAPI(ret.word, svc, vocabularyData))
                  = Core(ret.result)
    /\ Improving =>
          /\ Len(ret.after) = Len(ret.before)
          /\ \A i \in 1..Len(ret.before) :
                 Core(ret.after[i]) = Core(ret.before[i])

\* an entry built while no service answered (its meaning is the word
\* itself) is given a meaning by improveVocabWithAI
C19_Witness ==
    /\ ret.op = "improveVocabWithAI"
    /\ \E i \in 1..Len(ret.before) :
          /\ ret.before[i].meaning = ret.before[i].v1
          /\ ret.after[i].meaning \in Contents

----------------------------------------------------------------------------
(* Properties of what updateProgress leaves alone.                         *)

\* the progress map as the store held it before the last updateProgress
StoredBefore == IF ret.stored.present THEN ret.stored.value ELSE NoProgress

\* the records of the items other than the answered one are the same
\* before and after the call
OthersKept ==
    \A i \in (DOMAIN StoredBefore \cup DOMAIN getProgress) \ {ret.id} :
        /\ i \in DOMAIN StoredBefore
        /\ i \in DOMAIN getProgress
        /\ getProgress[i] = StoredBefore[i]

----------------------------------------------------------------------------
(* Properties of what leaves the progress store alone.                     *)

\* C21: a record of the progress store is created only by the first
\* updateProgress of its item and changed only by updateProgress:
\* getVocabProgress, getWordsForReview, addToWordBank, removeFromWordBank and
\* toggleFavorite create, change and delete no record, so that an item
\* taken out of the word bank and put back has the record it had.
C21_OnlyUpdateWrites ==
    [][progressStore' # progressStore =>
          /\ ret'.op = "updateProgress"
          /\ progressStore'.present
          /\ \A i \in DOMAIN progressStore'.value :
                i \notin DOMAIN getProgress => i = ret'.id /\ ret'.created
          /\ \A i \in DOMAIN getProgress :
                /\ i \in DOMAIN progressStore'.value
                /\ i # ret'.id => progressStore'.value[i] = getProgress[i]]_vars

\* an item that has a record has been taken out of the word bank, and the
\* record is still in the store
C21_Witness ==
    /\ ret.op = "removeFromWordBank"
    /\ ret.result
    /\ ret.id \in DOMAIN getProgress

----------------------------------------------------------------------------
(* Properties of the doubled consonant.                                    *)

\* the base ends in one vowel and one consonant, no vowel before them
SingleVowelConsonant(base) ==
    LET n == Len(base)
    IN  /\ n >= 2
        /\ base[n - 1] \in Vowels
        /\ base[n] \notin Vowels
        /\ n >= 3 => base[n - 2] \notin Vowels

\* C23: for a base that is not a key of the table, does not end in e and
\* does not end in a consonant and y, the last letter is doubled before ed
\* only when the base ends in a single vowel and a single consonant; a base
\* that ends in two vowels and a consonant ('clean', 'wait') or in two
\* consonants ('walk') gets ed alone, and 'chat' gives 'chatted'.
C23_DoublingRule ==
    LET base == toLowerCase(ret.verb)
        n    == Len(base)
    IN  (/\ Formed
         /\ base # <<>>
         /\ ~IsKey(base)
         /\ base \notin Inherited
         /\ ~endsWith(base, "e")
         /\ ~EndsConsonantY(base)) =>
            ret.result.v2 = IF SingleVowelConsonant(base)
                            THEN base \o <<base[n], "e", "d">>
                            ELSE base \o <<"e", "d">>

----------------------------------------------------------------------------
(* Properties of the answers recorded from two windows.                    *)

\* correct + incorrect of the stored record of an item, 0 without a record
Counted(id) ==
    IF id \in DOMAIN getProgress
    THEN getProgress[id].correct + getProgress[id].incorrect
    ELSE 0

\* C22: when two windows that share the progress store record answers, each
\* by reading the whole map, changing one record and writing the whole map
\* back, then in every interleaving of these steps no answer is lost: once
\* no update is running, correct + incorrect of every item is the number of
\* answers recorded for it.
C22_NoLostUpdate ==
    (\A t \in Tabs : tabs[t].pc = "idle") =>
        \A id \in Ids : Counted(id) = outcomes[id]

----------------------------------------------------------------------------
(* Properties of the counters.                                             *)

\* C24: from an empty progress store and after any sequence of
\* updateProgress calls, correct and incorrect of every item are natural
\* numbers whose sum is the number of answers recorded for the item, and
\* each call adds 1 to exactly one of them and leaves the other as it was.
C24_Counters ==
    /\ \A id \in Ids :
          /\ Counted(id) = outcomes[id]
          /\ id \in DOMAIN getProgress =>
                /\ getProgress[id].correct \in Nat
                /\ getProgress[id].incorrect \in Nat
    /\ Updated =>
          \/ /\ ret.result.correct = ret.before.correct + 1
             /\ ret.result.incorrect = ret.before.incorrect
          \/ /\ ret.result.correct = ret.before.correct
             /\ ret.result.incorrect = ret.before.incorrect + 1

\* a right answer for an item after a wrong one
C24_Witness ==
    /\ Updated
    /\ ret.isCorrect
    /\ ret.before.incorrect = 1
    /\ ret.result.correct = 1
    /\ outcomes[ret.id] = 2

----------------------------------------------------------------------------
(* Properties of the days until an item is due.                            *)

\* C25: an item of the word bank whose last answer was recorded at time t
\* (its lastReview) is left out of the list of getWordsForReview at every
\* time before t + 2 days and is in the list at every time from t + 3 days.
C25_DueWindow ==
    Listed =>
        \A id \in DOMAIN getProgress :
            includes(getWordBank, id) =>
                LET t == getProgress[id].lastReview
                IN  /\ ret.now < t + 2 * DayMs => ~includes(ret.result, id)
                    /\ ret.now >= t + 3 * DayMs => includes(ret.result, id)

----------------------------------------------------------------------------
(* Properties of runs of equal answers.                                    *)

\* the record after n more answers of one kind
RECURSIVE Repeated(_, _, _)
Repeated(p, isCorrect, n) ==
    IF n = 0 THEN p ELSE Repeated(Adjust(p, isCorrect), isCorrect, n - 1)

\* C26: from every ease the store holds, 6 wrong answers in a row bring the
\* ease to exactly 1.3 and 12 right answers in a row bring it to exactly
\* 2.5; one more answer of the same kind leaves the ease, and with it the
\* interval of 2 days or of 3 days, as it is.
C26_Convergence ==
    \A id \in DOMAIN getProgress :
        LET p    == getProgress[id]
            low  == Repeated(p, FALSE, 6)
            high == Repeated(p, TRUE, 12)
        IN  /\ low.ease = D1_3
            /\ Adjust(low, FALSE).ease = D1_3
            /\ Ceil(Adjust(low, FALSE).ease) = 2
            /\ high.ease = D2_5
            /\ Adjust(high, TRUE).ease = D2_5
            /\ Ceil(Adjust(high, TRUE).ease) = 3

\* the sixth wrong answer in a row from 2.5 is the one that reaches 1.3
C26_Witness ==
    /\ Updated /\ ~ret.isCorrect
    /\ ret.before.correct = 0 /\ ret.before.incorrect = 5
    /\ ret.before.ease # D1_3
    /\ Stored.ease = D1_3

----------------------------------------------------------------------------
(* Properties of the ids of the vocabulary list.                           *)

\* C27: in every interleaving of the handlers that add entries, every entry
\* of vocabularyData has an id that no other entry has.
C27_UniqueIds ==
    \A i, j \in 1..Len(vocabularyData) :
        i # j => vocabularyData[i].id # vocabularyData[j].id

\* the ids of a stored word bank
Banked(store) == IF store.present THEN Range(store.value) ELSE {}

\* C29: the word bank never holds an id twice; addToWordBank returns true and
\* inserts the id exactly when it was absent, removeFromWordBank returns true
\* and deletes it exactly when it was present, either one returns false and
\* changes nothing otherwise; isInWordBank tells whether the id is in the bank,
\* which it is from a successful add until the next successful remove
C29_WordBankIsSet ==
    [][LET was == ret'.id \in Banked(wordBankStore)
       IN  /\ \A i, j \in 1..Len(getWordBank') :
                 getWordBank'[i] = getWordBank'[j] => i = j
           /\ ret'.op = "addToWordBank" =>
                 /\ ret'.result = ~was
                 /\ was => wordBankStore' = wordBankStore
                 /\ ~was => Banked(wordBankStore') =
                               Banked(wordBankStore) \cup {ret'.id}
           /\ ret'.op = "removeFromWordBank" =>
                 /\ ret'.result = was
                 /\ ~was => wordBankStore' = wordBankStore
                 /\ was => Banked(wordBankStore') =
                              Banked(wordBankStore) \ {ret'.id}
           /\ ret'.op = "isInWordBank" =>
                 /\ ret'.result = was
                 /\ wordBankStore' = wordBankStore]_vars

\* an add refused for an item that went in earlier, next to another item
C29_Witness ==
    /\ ret.op = "addToWordBank"
    /\ ~ret.result
    /\ Len(getWordBank) > 1


\* C30: currentPage is at least 1 and, when the list that is shown is not
\* empty, at most the number of its pages, so that the page shown has an
\* entry; every filterAndSearch with its default arguments leaves currentPage
\* at 1
C30_PageInRange ==
    /\ currentPage >= 1
    /\ rendered > 0 =>
          /\ currentPage <= TotalPages(rendered)
          /\ (currentPage - 1) * itemsPerPage < rendered
    /\ ret.op = "filterAndSearch" => currentPage = 1

\* changePage called beyond the last page of a filtered list of several pages
C30_Witness ==
    /\ ret.op = "changePage"
    /\ ret.page > TotalPages(rendered)
    /\ currentCategory # "all"
    /\ currentPage = TotalPages(rendered)
    /\ currentPage > 1

============================================================================
